---- MODULE Spec2Model ----
(***************************************************************************)
(* Crawl-state engine of the Reddit scraper (pipeline.py): the            *)
(* DeduplicationManager, the UserExporter, the PipelineState and the      *)
(* IntegratedPipeline that drives them, with its signal handler, and the  *)
(* files they persist.                                                    *)
(*                                                                         *)
(* The thread of control is cut where a signal or a kill can fall between *)
(* two effects: inside add_users, inside export_chunks, and between the   *)
(* statements of the batch loop and of run.  The signal handler runs on   *)
(* the state it finds and ends the process; the interrupted frames never  *)
(* resume.  A kill leaves only the files.                                 *)
(*                                                                         *)
(* The SSH uploader is disabled in the runs of the pipeline (SSH_HOST is   *)
(* unset); a caller of the exporter alone has it enabled or not.  Of the  *)
(* Gluetun restarts of _refresh_miner the runs of the pipeline show only  *)
(* the one in the except clause of the harvest, which can raise; failing  *)
(* file writes are modelled for the callers of the saves alone and for    *)
(* the export of the discovery-only scraper.                              *)
(*                                                                         *)
(* The discovery-only scraper (src/main.py) is modelled next to it: its   *)
(* phases, its checkpoint, the recovery wrapper _run_with_recovery and the *)
(* GluetunController it rotates with.  Its signal handler only sets a     *)
(* flag.                                                                   *)
(*                                                                         *)
(* Names are pairs <<base, casing>>.  Casing 0 is the all-lower-case      *)
(* spelling of a name (alice), casing 1 a spelling with upper-case        *)
(* letters (Alice).  str.lower() maps every spelling to casing 0.         *)
(***************************************************************************)
EXTENDS Integers, Sequences, FiniteSets, TLC

\* ---------------------------------------------------------------- bounds
NumUsers == 2          \* distinct names (up to letter case) offered to the exporter
NumCommenters == 1     \* distinct names (up to letter case) a harvest can return
NumSubs == 2           \* distinct subreddits the remote source knows
NumKeywords == 1       \* length of NSFW_SEARCH_KEYWORDS in the model
MaxRestarts == 1       \* process restarts explored
NumIps == 2            \* public addresses the VPN hands out
MaxRateLimits == 3     \* rate-limit or block answers to the operations of one wrapper
MaxRunRateLimits == 1  \* rate-limit or block answers during the runs of the scraper
NumPosts == 2          \* posts with a new permalink one listing request can add
MaxFetchFailures == 12 \* failing answers of the remote source during one harvest:
                       \*   more than its retry loops can take before they give up

\* Program constants.  The program sets 100, 5000, 5000 and 100; the model
\* keeps their relations (threshold = chunk size, a batch of several
\* subreddits, a save every few operations) at a size that can be explored.
SUBREDDITS_BATCH_SIZE == 2
USERS_CHUNK_SIZE == 2
USERS_EXPORT_THRESHOLD == 2
DEDUP_PERSIST_INTERVAL == 2
\* GluetunController.max_restart_attempts (5) and the length of
\* RedditClient.USER_AGENTS, scaled the same way
max_restart_attempts == 2
NumUserAgents == 2
\* POSTS_PER_SUBREDDIT (500), the limit of a harvest, and max_retries (8) of
\* its per-post loop
POSTS_PER_SUBREDDIT == 2
max_retries == 2

Casings == {0, 1}
UserNames == (1..NumUsers) \X Casings
Commenters == (1..NumCommenters) \X Casings
DisplayNames == (1..NumSubs) \X Casings

\* str.lower()
Lower(n) == <<n[1], 0>>

LowerAll(S) == {Lower(n) : n \in S}

\* Python's str "<" on the spellings: upper-case letters sort before
\* lower-case ones, so Alice < Bob < alice < bob.
StrLess(a, b) ==
    IF a[2] # b[2] THEN a[2] > b[2]
    ELSE a[1] < b[1]

\* a sort that ignores letter case (key=str.lower), ties to the lower-case
\* spelling: alice < Alice < bob < Bob
RECURSIVE sorted(_)
RECURSIVE sorted_ignoring_case(_)
sorted_ignoring_case(S) ==
    IF S = {} THEN <<>>
    ELSE LET m == CHOOSE x \in S : \A y \in S \ {x} :
                      IF x[1] # y[1] THEN x[1] < y[1] ELSE x[2] < y[2]
         IN  <<m>> \o sorted_ignoring_case(S \ {m})

\* sorted(S)
sorted(S) ==
    IF S = {} THEN <<>>
    ELSE LET m == CHOOSE x \in S : \A y \in S \ {x} : StrLess(x, y)
         IN  <<m>> \o sorted(S \ {m})

Range(s) == {s[i] : i \in 1..Len(s)}

\* a slice that loses its last element (the bound taken one too low)
SliceShort(s, i, n) ==
    LET hi == IF i + n - 1 < Len(s) THEN i + n - 1 ELSE Len(s)
    IN  [j \in 1..(IF hi > i THEN hi - i ELSE 0) |-> s[i + j]]

\* a slice that takes one element too many (the bound taken one too high)
SliceLong(s, i, n) ==
    LET hi == IF i + n + 1 < Len(s) THEN i + n + 1 ELSE Len(s)
    IN  [j \in 1..(hi - i) |-> s[i + j]]

\* users_list[i:i + n] with a 0-based start i
Slice(s, i, n) ==
    LET hi == IF i + n < Len(s) THEN i + n ELSE Len(s)
    IN  [j \in 1..(hi - i) |-> s[i + j]]

\* list.remove(x): drops the first occurrence of x
RECURSIVE ListRemove(_, _)
ListRemove(s, x) ==
    IF s = <<>> THEN <<>>
    ELSE IF Head(s) = x THEN Tail(s)
    ELSE <<Head(s)>> \o ListRemove(Tail(s), x)

Ceil(n, d) == (n + d - 1) \div d

NoName == <<0, 0>>


VARIABLES
    dedup,          \* DeduplicationManager: the sets and the two op counters
    exporter,       \* UserExporter: pending_users, chunk_count, total_exported,
                    \*   total_uploaded, and whether its SSHUploader is enabled
    lists,          \* the list objects of the run, by identity
    current_batch,  \* PipelineState.current_batch: WHICH list object it is
    discovered,     \* SubredditDiscovery.discovered
    running,        \* IntegratedPipeline.running
    disk,           \* the persisted files
    pc,             \* position of the single thread of control
    loc,            \* local variables of the active frames
    hist,           \* history variables (observations only)
    scraper,        \* NSFWSubredditScraper with its client, controller, discovery
    checkpoint_file,\* data/checkpoint.json
    shist           \* history variables of the scraper (observations only)

vars == <<dedup, exporter, lists, current_batch, discovered, running, disk,
          pc, loc, hist, scraper, checkpoint_file, shist>>

\* the discovery-only scraper (src/main.py) shares no state with the pipeline
scraperVars == <<scraper, checkpoint_file, shist>>

\* --------------------------------------------------- DeduplicationManager

\* DeduplicationManager.__init__ before _load_state
DedupFresh ==
    [discovered_subreddits |-> {}, processed_subreddits |-> {},
     queued_subreddits |-> {}, seen_users |-> {},
     ops_since_save |-> 0, user_ops_since_save |-> 0]

\* DeduplicationManager._load_state
dedup_load_state(k) ==
    [DedupFresh EXCEPT !.discovered_subreddits = k.subreddits.discovered,
                       !.processed_subreddits = k.subreddits.processed,
                       !.seen_users = k.users]

\* DeduplicationManager.save_state
save_state(d, k, force) ==
    LET subs == force \/ d.ops_since_save >= DEDUP_PERSIST_INTERVAL
        usrs == force \/ d.user_ops_since_save >= DEDUP_PERSIST_INTERVAL * 10
    IN  [dedup |-> [d EXCEPT !.ops_since_save = IF subs THEN 0 ELSE @,
                             !.user_ops_since_save = IF usrs THEN 0 ELSE @],
         disk  |-> [k EXCEPT !.subreddits =
                                 IF subs
                                 THEN [discovered |-> d.discovered_subreddits,
                                       processed |-> d.processed_subreddits]
                                 ELSE @,
                             !.users = IF usrs THEN d.seen_users ELSE @]]

is_subreddit_processed(d, name) == Lower(name) \in d.processed_subreddits

is_subreddit_queued(d, name) == Lower(name) \in d.queued_subreddits

\* should_process_subreddit: not seen, not processed, not queued
should_process_subreddit(d, name) ==
    /\ Lower(name) \notin d.discovered_subreddits
    /\ Lower(name) \notin d.processed_subreddits
    /\ Lower(name) \notin d.queued_subreddits

\* DeduplicationManager.mark_subreddit_discovered
mark_subreddit_discovered(d, k, name) ==
    IF Lower(name) \in d.discovered_subreddits
    THEN [dedup |-> d, disk |-> k, ret |-> FALSE]
    ELSE LET d1 == [d EXCEPT !.discovered_subreddits = @ \cup {Lower(name)},
                             !.ops_since_save = @ + 1]
             s == IF d1.ops_since_save >= DEDUP_PERSIST_INTERVAL
                  THEN save_state(d1, k, FALSE)
                  ELSE [dedup |-> d1, disk |-> k]
         IN  [dedup |-> s.dedup, disk |-> s.disk, ret |-> TRUE]

mark_subreddit_queued(d, name) ==
    [d EXCEPT !.queued_subreddits = @ \cup {Lower(name)}]

\* DeduplicationManager.mark_subreddit_processed
mark_subreddit_processed(d, k, name) ==
    LET d1 == [d EXCEPT !.processed_subreddits = @ \cup {Lower(name)},
                        !.queued_subreddits = @ \ {Lower(name)},
                        !.ops_since_save = @ + 1]
    IN  IF d1.ops_since_save >= DEDUP_PERSIST_INTERVAL
        THEN save_state(d1, k, FALSE)
        ELSE [dedup |-> d1, disk |-> k]

set_queue(d, subreddits) ==
    [d EXCEPT !.queued_subreddits = LowerAll(Range(subreddits))]

\* DeduplicationManager.clear_queue
clear_queue(d) == [d EXCEPT !.queued_subreddits = {}]

\* filter_new_users with the membership test made on the spelling as given
filter_new_users_as_given(d, k, users) ==
    LET new_users == users \ d.seen_users
        d1 == [d EXCEPT !.seen_users = @ \cup LowerAll(new_users),
                        !.user_ops_since_save = @ + Cardinality(new_users)]
    IN  IF new_users = {}
        THEN [dedup |-> d, disk |-> k, ret |-> {}]
        ELSE [dedup |-> d1, disk |-> k, ret |-> new_users]

\* DeduplicationManager.filter_new_users
filter_new_users(d, k, users) ==
    LET users_lower == LowerAll(users)
        new_users_lower == users_lower \ d.seen_users
        new_users == {u \in users : Lower(u) \in new_users_lower}
        d1 == [d EXCEPT !.seen_users = @ \cup new_users_lower,
                        !.user_ops_since_save = @ + Cardinality(new_users_lower)]
        s == IF d1.user_ops_since_save >= DEDUP_PERSIST_INTERVAL * 10
             THEN save_state(d1, k, FALSE)
             ELSE [dedup |-> d1, disk |-> k]
    IN  IF new_users_lower = {}
        THEN [dedup |-> d, disk |-> k, ret |-> {}]
        ELSE [dedup |-> s.dedup, disk |-> s.disk, ret |-> new_users]

\* ----------------------------------------------------------- UserExporter

\* UserExporter.__init__ before _load_state, with an SSHUploader built from
\* an environment without SSH_HOST
ExporterFresh ==
    [pending_users |-> {}, chunk_count |-> 0, total_exported |-> 0,
     total_uploaded |-> 0, ssh_enabled |-> FALSE]

\* UserExporter._load_state
exporter_load_state(k) ==
    IF k.exporter_state.present
    THEN [pending_users |-> k.exporter_state.pending_users,
          chunk_count |-> k.exporter_state.chunk_count,
          total_exported |-> k.exporter_state.total_exported,
          total_uploaded |-> k.exporter_state.total_uploaded,
          ssh_enabled |-> FALSE]
    ELSE ExporterFresh

\* UserExporter._save_state
exporter_save_state(e, k) ==
    [k EXCEPT !.exporter_state =
        [present |-> TRUE, chunk_count |-> e.chunk_count,
         total_exported |-> e.total_exported,
         total_uploaded |-> e.total_uploaded,
         pending_users |-> e.pending_users]]

\* SSHUploader.upload_files: nothing when disabled, else the number of paths
\* whose upload_file call returned True
upload_files(enabled, transferred) == IF enabled THEN transferred ELSE 0

count_uploaded_as_exported(e, uploaded) ==
    [e EXCEPT !.total_uploaded = @ + uploaded, !.total_exported = uploaded]

\* self.total_uploaded += uploaded
count_uploaded(e, uploaded) == [e EXCEPT !.total_uploaded = @ + uploaded]

should_export(e) == Cardinality(e.pending_users) >= USERS_EXPORT_THRESHOLD

\* ---------------------------------------------------------- PipelineState

\* PipelineState.save
state_save(d, k, batch) ==
    save_state(d, [k EXCEPT !.pipeline_state = batch], TRUE)

\* mark_processed without the removal from current_batch
mark_processed_keeping_queue(d, k, ls, cb, name) ==
    LET m == mark_subreddit_processed(d, k, name)
        s == state_save(m.dedup, m.disk, ls[cb])
    IN  [dedup |-> s.dedup, disk |-> s.disk, lists |-> ls]

\* PipelineState.mark_processed: the list it shrinks is the object
\* current_batch refers to
mark_processed(d, k, ls, cb, name) ==
    LET m == mark_subreddit_processed(d, k, name)
        ls1 == [ls EXCEPT ![cb] = ListRemove(@, name)]
        s == state_save(m.dedup, m.disk, ls1[cb])
    IN  [dedup |-> s.dedup, disk |-> s.disk, lists |-> ls1]

\* PipelineState.set_batch: current_batch becomes the caller's list object
set_batch(d, k, ls, batch) ==
    state_save(set_queue(d, ls[batch]), k, ls[batch])

\* ------------------------------------------------------------------ files

DiskEmpty ==
    [subreddits |-> [discovered |-> {}, processed |-> {}],
     users |-> {},
     pipeline_state |-> <<>>,
     exporter_state |-> [present |-> FALSE, chunk_count |-> 0,
                         total_exported |-> 0, total_uploaded |-> 0,
                         pending_users |-> {}],
     csv |-> <<>>,
     json |-> <<>>]

\* identities held by the chunk files of ordinal o
ChunkUsers(k, o) ==
    (IF o \in DOMAIN k.csv THEN Range(k.csv[o]) ELSE {}) \cup
    (IF o \in DOMAIN k.json THEN Range(k.json[o].users) ELSE {})

Ordinals(k) == DOMAIN k.csv \cup DOMAIN k.json

AllChunkUsers(k) == UNION {ChunkUsers(k, o) : o \in Ordinals(k)}

\* open(path, "w") and the write of chunk file number o: the file is created
\* or replaced
WriteFile(f, o, content) ==
    [x \in DOMAIN f \cup {o} |-> IF x = o THEN content ELSE f[x]]

\* ------------------------------------------- scraper: state and checkpoint

\* the phases of NSFWSubredditScraper.run, in the order it runs them
PhaseNames == <<"keyword_search", "popular", "new", "related">>

Ips == 1..NumIps
UserAgents == 1..NumUserAgents

\* ScraperState() as the dataclass builds it (explore_queue is left out: no
\* operation modelled here reads it)
ScraperStateFresh ==
    [discovered_subreddits |-> <<>>, discovered_names |-> {},
     completed_keywords |-> <<>>, current_phase |-> "init"]

\* GluetunController.__init__: no address known (0), no restart counted
GluetunFresh == [restart_count |-> 0, current_ip |-> 0]

\* NSFWSubredditScraper.__init__ with its collaborators; phase, keyword,
\* remaining_keywords and pos are the locals of run and of the generator
ScraperFresh ==
    [running |-> TRUE,
     state |-> ScraperStateFresh,
     discovered |-> {},                \* SubredditDiscovery.discovered
     gluetun |-> GluetunFresh,
     client |-> [user_agent |-> 1, session |-> 0],
     phase |-> 1, keyword |-> 0, remaining_keywords |-> <<>>, pos |-> 0]

CheckpointAbsent == [present |-> FALSE, state |-> ScraperStateFresh]

SHistFresh ==
    [budget |-> MaxRunRateLimits, \* rate-limit/block answers the remote will give
     rate_limits |-> 0,        \* rate-limit/block errors raised so far
     cycles |-> 0,             \* rotate-and-retry cycles of the current operation
     rotation_requests |-> 0,  \* calls of restart_for_new_ip so far
     last_rotation |-> "none", \* how the last of them ended: true/false/raise
     unchanged_streak |-> 0,   \* container restarts since the address last changed
     op_end |-> "none",        \* how the wrapped operation ended: complete/stopped
     aborted |-> "none",       \* first phase of this run cut short by error or stop
     aborted_by |-> "none",    \*   and by which of the two
     completed |-> {},         \* phases of this run that ran to completion
     saved_after_abort |-> FALSE,
     deleted |-> FALSE,        \* CheckpointManager.delete was called
     restarted_from |-> -1,    \* restart_count found by the last call of
                               \*   restart_for_new_ip that restarted the
                               \*   container (-1: none yet)
     starts |-> 0]

\* the scraper is not part of the run
ScraperIdle ==
    /\ scraper = ScraperFresh
    /\ checkpoint_file = CheckpointAbsent
    /\ shist = SHistFresh

\* CheckpointManager.load: the saved state, or None and the fresh state stays
checkpoint_load(f) == IF f.present THEN f.state ELSE ScraperStateFresh

save_checkpoint_without_names(s) ==
    [scraper |-> s, file |-> [present |-> TRUE, state |-> s.state]]

\* NSFWSubredditScraper._save_checkpoint: copies discovery.discovered into the
\* state and writes the state; yields the scraper and the file
save_checkpoint(s) ==
    LET st == [s.state EXCEPT !.discovered_names = s.discovered]
    IN  [scraper |-> [s EXCEPT !.state = st],
         file |-> [present |-> TRUE, state |-> st]]

\* CheckpointManager.delete
checkpoint_delete(f) == [f EXCEPT !.present = FALSE]

\* ------------------------------------------------------ GluetunController

\* what the Docker daemon and the VPN answer to one restart
RotatorOutcomes ==
    [kind : {"not_found", "api_error", "unhealthy", "no_ip"}, ip : {0}]
        \cup [kind : {"ip"}, ip : Ips]

\* a guard that never stops a call
restart_limit_never(g) == g.restart_count < 0

restart_limit_off(g) == g.restart_count > max_restart_attempts

\* the guard at the head of restart_for_new_ip
restart_limit_reached(g) == g.restart_count >= max_restart_attempts

\* GluetunController.restart_for_new_ip on the answer o: the controller
\* afterwards, what the call did (ret: true, false or raise) and whether the
\* container was restarted
restart_for_new_ip(g, o) ==
    IF restart_limit_reached(g) \/ o.kind = "not_found"
    THEN [gluetun |-> g, ret |-> "raise", restarted |-> FALSE]
    ELSE IF o.kind = "api_error"
    THEN [gluetun |-> g, ret |-> "false", restarted |-> FALSE]
    ELSE IF o.kind \in {"unhealthy", "no_ip"}
    THEN [gluetun |-> [g EXCEPT !.restart_count = @ + 1],
          ret |-> "false", restarted |-> TRUE]
    ELSE [gluetun |-> [g EXCEPT !.current_ip = o.ip,
                                !.restart_count = IF o.ip = g.current_ip
                                                  THEN @ + 1 ELSE 0],
          ret |-> "true", restarted |-> TRUE]

\* GluetunController.reset_restart_counter
reset_restart_counter(g) == [g EXCEPT !.restart_count = 0]

handle_without_new_session(s, o, ua) ==
    LET c == save_checkpoint(s)
        r == restart_for_new_ip(s.gluetun, o)
    IN  [scraper |-> [c.scraper EXCEPT !.gluetun = r.gluetun],
         file |-> c.file,
         ret |-> (r.ret = "true"),
         rotation |-> r]

\* NSFWSubredditScraper._handle_rate_limit_or_block: checkpoint, one rotation
\* request, and on success a re-drawn user agent (ua) and a new session
handle_rate_limit_or_block(s, o, ua) ==
    LET c == save_checkpoint(s)
        r == restart_for_new_ip(s.gluetun, o)
        s1 == [c.scraper EXCEPT !.gluetun = r.gluetun]
    IN  [scraper |-> IF r.ret = "true"
                     THEN [s1 EXCEPT !.client = [user_agent |-> ua,
                                                 session |-> @.session + 1]]
                     ELSE s1,
         file |-> c.file,
         ret |-> (r.ret = "true"),
         rotation |-> r]

\* ----------------------------------------------------------------- frames

\* the frame of gather_commenters_for_subreddit: its arguments miner (named
\* 0 at the call; every refresh gives the next one) and refresh_callback
\* (given or None), the fetch_with_retry call it is in and its attempt, and
\* the locals of the loop over the posts
GatherFresh ==
    [callback |-> FALSE, miner |-> 0, stage |-> "none", attempt |-> 0,
     posts |-> 0, idx |-> 0, retry |-> 0,
     unique_commenters |-> {}, post_count |-> 0]

GatherHistFresh ==
    [failures |-> 0,           \* failing answers so far in this harvest
     outcomes |-> <<>>,        \* the failed fetches of the current post: the
                               \*   error and whether refresh_callback was called
     abandoned |-> {},         \* posts left on an error that is not retried
     exhausted |-> {},         \* posts left after max_retries failures
     fetched |-> {}]           \* posts whose details were fetched

LocFresh ==
    [batch_ret |-> "none", add_ret |-> "none", exp_ret |-> "none",
     subreddits |-> "none", idx |-> 0, subreddit |-> NoName,
     all_commenters |-> {}, new_users |-> {},
     users_list |-> <<>>, i |-> 0, files_created |-> 0, force |-> FALSE,
     keyword |-> 1, in_handler |-> FALSE,
     gather |-> GatherFresh]

HistFresh ==
    [accepted |-> {},          \* names filter_new_users returned, this run
     batch_arg |-> <<>>,       \* the batch as it was handed to the batch loop
     handled |-> <<>>,         \* entities the loop body reached, in order
     harvested |-> <<>>,       \* entities harvested by the current batch call
     restarts |-> 0,
     ended |-> "none",         \* how the previous process ended
     ended_at |-> "none",      \* and where
     boot_queue |-> <<>>,      \* persisted batch queue found at start
     boot_processed |-> {},    \* persisted processed set found at start
     exp_force |-> FALSE,      \* the last export_chunks call: its argument,
     exp_n |-> 0,              \*   the buffer size and chunk_count it found,
     exp_c0 |-> 0,
     exp_result |-> -1,        \*   and what it returned (-1: not yet)
     kw_outcome |-> [k \in 1..NumKeywords |-> "none"],
                               \* how the search of each keyword ended
     open_queue |-> {},        \* entities marked queued and not yet processed,
                               \*   since the queue was last set
     batch_aborted |-> FALSE,  \* an exception left _process_subreddit_batch
     gather |-> GatherHistFresh,
     io |-> [failed |-> FALSE,      \* the last save met a failing file write,
             raised |-> "none",     \*   the operation an exception left,
             changed |-> FALSE]]    \*   and whether the sets or the buffer changed

ListsFresh == [own |-> <<>>, remaining |-> <<>>, buffer |-> <<>>]

\* PipelineState._load: current_batch is the list read from the file, and
\* a non-empty one is also made the queue of the dedup manager
state_load(d, k) ==
    IF k.pipeline_state # <<>> THEN set_queue(d, k.pipeline_state) ELSE d

\* IntegratedPipeline.__init__ on the files k: the objects it builds
Construct(k) ==
    [dedup |-> state_load(dedup_load_state(k), k),
     exporter |-> exporter_load_state(k),
     lists |-> [ListsFresh EXCEPT !.own = k.pipeline_state]]

Init ==
    /\ ScraperIdle
    /\ disk = DiskEmpty
    /\ dedup = Construct(DiskEmpty).dedup
    /\ exporter = Construct(DiskEmpty).exporter
    /\ lists = Construct(DiskEmpty).lists
    /\ current_batch = "own"
    /\ discovered = {}
    /\ running = TRUE
    /\ loc = LocFresh
    /\ pc = "run_start"
    /\ hist = HistFresh

\* -------------------------------------------------- UserExporter.add_users

\* add_users, first half: the call of filter_new_users
AddFilter ==
    /\ UNCHANGED scraperVars
    /\ pc = "add_filter"
    /\ LET r == filter_new_users(dedup, disk, loc.all_commenters)
       IN  /\ dedup' = r.dedup
           /\ disk' = r.disk
           /\ loc' = [loc EXCEPT !.new_users = r.ret]
           /\ hist' = [hist EXCEPT !.accepted = @ \cup r.ret]
    /\ pc' = "add_pending"
    /\ UNCHANGED <<exporter, lists, current_batch, discovered, running>>

\* add_users, second half: pending_users.update(new_users)
AddPending ==
    /\ UNCHANGED scraperVars
    /\ pc = "add_pending"
    /\ exporter' = [exporter EXCEPT !.pending_users = @ \cup loc.new_users]
    /\ pc' = loc.add_ret
    /\ loc' = [loc EXCEPT !.new_users = {}, !.add_ret = "none",
                          !.all_commenters = {}]
    /\ UNCHANGED <<dedup, lists, current_batch, discovered, running, disk, hist>>

\* ---------------------------------------------- UserExporter.export_chunks

\* the two early returns, then users_list = sorted(pending_users)
ExpBegin ==
    /\ UNCHANGED scraperVars
    /\ pc = "exp_begin"
    /\ LET n == Cardinality(exporter.pending_users)
           nothing == (~loc.force /\ n < USERS_EXPORT_THRESHOLD) \/ n = 0
       IN  /\ hist' = [hist EXCEPT !.exp_force = loc.force, !.exp_n = n,
                                   !.exp_c0 = exporter.chunk_count,
                                   !.exp_result = IF nothing THEN 0 ELSE -1]
           /\ IF nothing
              THEN /\ pc' = loc.exp_ret
                   /\ loc' = [loc EXCEPT !.exp_ret = "none", !.force = FALSE]
              ELSE /\ pc' = "exp_csv"
                   /\ loc' = [loc EXCEPT !.users_list = sorted(exporter.pending_users),
                                         !.i = 0, !.files_created = 0]
    /\ UNCHANGED <<dedup, exporter, lists, current_batch, discovered, running, disk>>

\* chunk_count += 1 and the CSV file of the chunk
ExpCsv ==
    /\ UNCHANGED scraperVars
    /\ pc = "exp_csv"
    /\ LET chunk == Slice(loc.users_list, loc.i, USERS_CHUNK_SIZE)
           o == exporter.chunk_count + 1
       IN  /\ exporter' = [exporter EXCEPT !.chunk_count = o]
           /\ disk' = [disk EXCEPT !.csv = WriteFile(@, o, chunk)]
    /\ pc' = "exp_json"
    /\ UNCHANGED <<dedup, lists, current_batch, discovered, running, loc, hist>>

\* the JSON file of the chunk, after which the range() loop is left at once
ExpJsonCutShort ==
    /\ UNCHANGED scraperVars
    /\ pc = "exp_json"
    /\ LET chunk == Slice(loc.users_list, loc.i, USERS_CHUNK_SIZE)
       IN  disk' = [disk EXCEPT !.json =
                       WriteFile(@, exporter.chunk_count,
                                 [users |-> chunk, count |-> Len(chunk)])]
    /\ loc' = [loc EXCEPT !.i = @ + USERS_CHUNK_SIZE, !.files_created = @ + 1]
    /\ pc' = "exp_clear"
    /\ UNCHANGED <<dedup, exporter, lists, current_batch, discovered, running, hist>>

\* the JSON file of the chunk, and the step of the range() loop
ExpJson ==
    /\ UNCHANGED scraperVars
    /\ pc = "exp_json"
    /\ LET chunk == Slice(loc.users_list, loc.i, USERS_CHUNK_SIZE)
       IN  disk' = [disk EXCEPT !.json =
                       WriteFile(@, exporter.chunk_count,
                                 [users |-> chunk, count |-> Len(chunk)])]
    /\ loc' = [loc EXCEPT !.i = @ + USERS_CHUNK_SIZE, !.files_created = @ + 1]
    /\ pc' = IF loc.i + USERS_CHUNK_SIZE < Len(loc.users_list)
             THEN "exp_csv" ELSE "exp_clear"
    /\ UNCHANGED <<dedup, exporter, lists, current_batch, discovered, running, hist>>

\* total_exported += len(pending_users); pending_users.clear()
ExpClear ==
    /\ UNCHANGED scraperVars
    /\ pc = "exp_clear"
    /\ exporter' = [exporter EXCEPT
                       !.total_exported = @ + Cardinality(exporter.pending_users),
                       !.pending_users = {}]
    /\ pc' = "exp_upload"
    /\ UNCHANGED <<dedup, lists, current_batch, discovered, running, disk, loc, hist>>

\* "Upload chunk files to SSH server": with an enabled uploader, upload_files
\* on the two files of every chunk of the call; any number of them arrives
ExpUpload ==
    /\ UNCHANGED scraperVars
    /\ pc = "exp_upload"
    /\ \E transferred \in 0..(2 * loc.files_created) :
          exporter' =
              IF exporter.ssh_enabled /\ loc.files_created > 0
              THEN count_uploaded(exporter,
                                  upload_files(exporter.ssh_enabled, transferred))
              ELSE exporter
    /\ pc' = "exp_save"
    /\ UNCHANGED <<dedup, lists, current_batch, discovered, running, disk, loc, hist>>

\* _save_state(), dedup.save_state(force=True), return files_created
ExpSave ==
    /\ UNCHANGED scraperVars
    /\ pc = "exp_save"
    /\ LET s == save_state(dedup, exporter_save_state(exporter, disk), TRUE)
       IN  /\ dedup' = s.dedup
           /\ disk' = s.disk
    /\ hist' = [hist EXCEPT !.exp_result = loc.files_created]
    /\ pc' = loc.exp_ret
    /\ loc' = [loc EXCEPT !.exp_ret = "none", !.force = FALSE,
                          !.users_list = <<>>, !.i = 0, !.files_created = 0]
    /\ UNCHANGED <<exporter, lists, current_batch, discovered, running>>

\* ------------------------------------- callers of the exporter, one by one

InitExporter ==
    /\ ScraperIdle
    /\ disk = DiskEmpty
    /\ dedup = DedupFresh
    /\ exporter = ExporterFresh
    /\ lists = ListsFresh
    /\ current_batch = "own"
    /\ discovered = {}
    /\ running = TRUE
    /\ loc = LocFresh
    /\ pc = "idle"
    /\ hist = HistFresh

\* user_exporter.add_users(users) for any candidate set
CallAddUsers ==
    /\ UNCHANGED scraperVars
    /\ pc = "idle"
    /\ \E users \in SUBSET UserNames :
           loc' = [loc EXCEPT !.all_commenters = users, !.add_ret = "idle"]
    /\ pc' = "add_filter"
    /\ UNCHANGED <<dedup, exporter, lists, current_batch, discovered, running,
                   disk, hist>>

\* user_exporter.export_chunks(force) for either value of force
CallExportChunks ==
    /\ UNCHANGED scraperVars
    /\ pc = "idle"
    /\ \E force \in BOOLEAN :
           loc' = [loc EXCEPT !.force = force, !.exp_ret = "idle"]
    /\ pc' = "exp_begin"
    /\ UNCHANGED <<dedup, exporter, lists, current_batch, discovered, running,
                   disk, hist>>

NextExporter ==
    \/ CallAddUsers
    \/ CallExportChunks
    \/ AddFilter
    \/ AddPending
    \/ ExpBegin
    \/ ExpCsv
    \/ ExpJson
    \/ ExpClear
    \/ ExpUpload
    \/ ExpSave

SpecExporter == InitExporter /\ [][NextExporter]_vars

\* ---------------------- callers of an exporter with or without a Delivery Sink

\* as InitExporter, with SSH_HOST and SSH_USER set or not
InitUpload ==
    /\ ScraperIdle
    /\ disk = DiskEmpty
    /\ dedup = DedupFresh
    /\ \E enabled \in BOOLEAN :
          exporter = [ExporterFresh EXCEPT !.ssh_enabled = enabled]
    /\ lists = ListsFresh
    /\ current_batch = "own"
    /\ discovered = {}
    /\ running = TRUE
    /\ loc = LocFresh
    /\ pc = "idle"
    /\ hist = HistFresh

\* user_exporter.add_users(users) for any set of lower-case names
CallAddLowerUsers ==
    /\ UNCHANGED scraperVars
    /\ pc = "idle"
    /\ \E users \in SUBSET LowerAll(UserNames) :
           loc' = [loc EXCEPT !.all_commenters = users, !.add_ret = "idle"]
    /\ pc' = "add_filter"
    /\ UNCHANGED <<dedup, exporter, lists, current_batch, discovered, running,
                   disk, hist>>

NextUpload ==
    \/ CallAddLowerUsers
    \/ CallExportChunks
    \/ AddFilter
    \/ AddPending
    \/ ExpBegin
    \/ ExpCsv
    \/ ExpJson
    \/ ExpClear
    \/ ExpUpload
    \/ ExpSave

SpecUpload == InitUpload /\ [][NextUpload]_vars

\* ------------------------------ IntegratedPipeline._process_subreddit_batch

\* entry: self.state.set_batch(subreddits); the loop then iterates over the
\* list object loc.subreddits, which is now also current_batch
BatchEnter ==
    /\ UNCHANGED scraperVars
    /\ pc = "batch_enter"
    /\ LET s == set_batch(dedup, disk, lists, loc.subreddits)
       IN  /\ dedup' = s.dedup
           /\ disk' = s.disk
    /\ current_batch' = loc.subreddits
    /\ loc' = [loc EXCEPT !.idx = 0]
    /\ hist' = [hist EXCEPT !.batch_arg = lists[loc.subreddits],
                            !.handled = <<>>, !.harvested = <<>>,
                            !.open_queue = Range(lists[loc.subreddits])]
    /\ pc' = "batch_loop"
    /\ UNCHANGED <<exporter, lists, discovered, running>>

\* one step of the list iterator, the running test and the skip test
BatchLoop ==
    /\ UNCHANGED scraperVars
    /\ pc = "batch_loop"
    /\ LET l == lists[loc.subreddits]
       IN  IF loc.idx >= Len(l) \/ ~running
           THEN /\ pc' = "batch_end"
                /\ UNCHANGED <<loc, hist>>
           ELSE LET sub == l[loc.idx + 1]
                IN  IF is_subreddit_processed(dedup, sub)
                    THEN /\ pc' = "batch_loop"
                         /\ loc' = [loc EXCEPT !.idx = @ + 1]
                         /\ hist' = [hist EXCEPT !.handled = Append(@, sub)]
                    ELSE /\ pc' = "harvest"
                         /\ loc' = [loc EXCEPT !.idx = @ + 1, !.subreddit = sub]
                         /\ UNCHANGED hist
    /\ UNCHANGED <<dedup, exporter, lists, current_batch, discovered, running, disk>>

\* the two gather_commenters_for_subreddit calls (a call that raises adds
\* nothing), then the test of all_commenters
Harvest ==
    /\ UNCHANGED scraperVars
    /\ pc = "harvest"
    /\ \E commenters \in SUBSET Commenters :
           /\ loc' = [loc EXCEPT !.all_commenters = commenters,
                                 !.add_ret = IF commenters # {} THEN "mark" ELSE "none"]
           /\ pc' = IF commenters # {} THEN "add_filter" ELSE "mark_empty"
    /\ hist' = [hist EXCEPT !.harvested = Append(@, loc.subreddit)]
    /\ UNCHANGED <<dedup, exporter, lists, current_batch, discovered, running, disk>>

\* a gather_commenters_for_subreddit call raises and, in the except clause,
\* _refresh_miner raises as well (GluetunManager.restart or new_miner cannot
\* reach Docker or start the container): the exception leaves
\* _process_subreddit_batch.  Called from the keyword loop, "except Exception"
\* of run catches it: log, sleep, next keyword, with batch_buffer.clear() and
\* state.save() skipped.  The resumed and the remaining batch are called
\* outside any try: run ends with the exception and only the files are left.
HarvestRefreshRaises ==
    /\ UNCHANGED scraperVars
    /\ pc = "harvest"
    /\ IF loc.batch_ret = "after_batch"
       THEN /\ pc' = "discovery"
            /\ loc' = [loc EXCEPT !.keyword = @ + 1, !.batch_ret = "none",
                                  !.subreddits = "none", !.idx = 0,
                                  !.subreddit = NoName]
            /\ hist' = [hist EXCEPT !.kw_outcome[loc.keyword] = "error",
                                    !.batch_aborted = TRUE,
                                    !.batch_arg = <<>>, !.handled = <<>>,
                                    !.harvested = <<>>,
                                    !.boot_queue = <<>>, !.boot_processed = {}]
            /\ UNCHANGED <<dedup, exporter, lists, current_batch, discovered,
                           running>>
       ELSE /\ pc' = "dead"
            /\ hist' = [HistFresh EXCEPT !.restarts = hist.restarts,
                                         !.open_queue = hist.open_queue,
                                         !.batch_aborted = TRUE,
                                         !.ended = "exception",
                                         !.ended_at = "other"]
            /\ dedup' = DedupFresh
            /\ exporter' = ExporterFresh
            /\ lists' = ListsFresh
            /\ current_batch' = "own"
            /\ discovered' = {}
            /\ running' = FALSE
            /\ loc' = LocFresh
    /\ UNCHANGED disk

\* self.state.mark_processed(subreddit), in either branch
Mark ==
    /\ UNCHANGED scraperVars
    /\ pc \in {"mark", "mark_empty"}
    /\ LET m == mark_processed(dedup, disk, lists, current_batch, loc.subreddit)
       IN  /\ dedup' = m.dedup
           /\ disk' = m.disk
           /\ lists' = m.lists
    /\ hist' = [hist EXCEPT !.handled = Append(@, loc.subreddit),
                            !.open_queue = @ \ {loc.subreddit}]
    /\ IF pc = "mark" /\ should_export(exporter)
       THEN /\ pc' = "exp_begin"
            /\ loc' = [loc EXCEPT !.subreddit = NoName, !.force = FALSE,
                                  !.exp_ret = "batch_loop"]
       ELSE /\ pc' = "batch_loop"
            /\ loc' = [loc EXCEPT !.subreddit = NoName]
    /\ UNCHANGED <<exporter, current_batch, discovered, running>>

\* the batch statistics are printed and the call returns
BatchEnd ==
    /\ UNCHANGED scraperVars
    /\ pc = "batch_end"
    /\ pc' = loc.batch_ret
    /\ loc' = [loc EXCEPT !.batch_ret = "none", !.subreddits = "none", !.idx = 0]
    /\ hist' = [hist EXCEPT !.batch_arg = <<>>, !.handled = <<>>,
                            !.harvested = <<>>,
                            !.boot_queue = <<>>, !.boot_processed = {}]
    /\ UNCHANGED <<dedup, exporter, lists, current_batch, discovered, running, disk>>

\* ------------------------------------------------- IntegratedPipeline.run

\* _init_subreddit_scraper: discovery.load_discovered(dedup.discovered_subreddits)
RunStart ==
    /\ UNCHANGED scraperVars
    /\ pc = "run_start"
    /\ discovered' = discovered \cup dedup.discovered_subreddits
    /\ pc' = "resume"
    /\ UNCHANGED <<dedup, exporter, lists, current_batch, running, disk, loc, hist>>

\* "Resume incomplete batch if any"
Resume ==
    /\ UNCHANGED scraperVars
    /\ pc = "resume"
    /\ LET remaining == SelectSeq(lists[current_batch],
                                  LAMBDA x : x \notin dedup.processed_subreddits)
       IN  IF lists[current_batch] # <<>> /\ remaining # <<>>
           THEN /\ lists' = [lists EXCEPT !.remaining = remaining]
                /\ loc' = [loc EXCEPT !.subreddits = "remaining",
                                      !.batch_ret = "discovery"]
                /\ pc' = "batch_enter"
                /\ UNCHANGED hist
           ELSE /\ pc' = "discovery"
                /\ hist' = [hist EXCEPT !.boot_queue = <<>>, !.boot_processed = {}]
                /\ UNCHANGED <<lists, loc>>
    /\ UNCHANGED <<dedup, exporter, current_batch, discovered, running, disk>>

\* search_by_keyword yields one entity (SubredditDiscovery._process_listing,
\* with the lower-casing of _extract_subreddit_info) and the body of the
\* inner loop of run handles it.  The remote source lists its subreddits in
\* one order (1, 2, ...), in any spelling: which name comes first makes no
\* difference to the code, so only this order is explored.
DiscYield ==
    /\ UNCHANGED scraperVars
    /\ pc = "discovery"
    /\ running
    /\ loc.keyword <= NumKeywords
    /\ \E display_name \in DisplayNames :
         LET subreddit_name == Lower(display_name)
             a == mark_subreddit_discovered(dedup, disk, subreddit_name)
             add == /\ ~is_subreddit_processed(a.dedup, subreddit_name)
                    /\ ~is_subreddit_queued(a.dedup, subreddit_name)
                    /\ subreddit_name \notin Range(lists.buffer)
             buffer == IF add THEN Append(lists.buffer, subreddit_name)
                       ELSE lists.buffer
         IN  /\ subreddit_name \notin discovered
             /\ \A other \in DisplayNames :
                    other[1] < display_name[1] => Lower(other) \in discovered
             /\ discovered' = discovered \cup {subreddit_name}
             /\ IF is_subreddit_processed(dedup, subreddit_name)
                THEN UNCHANGED <<dedup, disk, lists, loc, pc, hist>>
                ELSE /\ dedup' = IF add
                                 THEN mark_subreddit_queued(a.dedup, subreddit_name)
                                 ELSE a.dedup
                     /\ disk' = a.disk
                     /\ lists' = [lists EXCEPT !.buffer = buffer]
                     /\ hist' = IF add
                                THEN [hist EXCEPT !.open_queue = @ \cup {subreddit_name}]
                                ELSE hist
                     /\ IF Len(buffer) >= SUBREDDITS_BATCH_SIZE
                        THEN /\ loc' = [loc EXCEPT !.subreddits = "buffer",
                                                   !.batch_ret = "after_batch"]
                             /\ pc' = "batch_enter"
                        ELSE UNCHANGED <<loc, pc>>
    /\ UNCHANGED <<exporter, current_batch, running>>

\* the search of the keyword ends: the for loop takes the next keyword
DiscKeywordDone ==
    /\ UNCHANGED scraperVars
    /\ pc = "discovery"
    /\ running
    /\ loc.keyword <= NumKeywords
    /\ loc' = [loc EXCEPT !.keyword = @ + 1]
    /\ hist' = [hist EXCEPT !.kw_outcome[loc.keyword] = "completed"]
    /\ UNCHANGED <<dedup, exporter, lists, current_batch, discovered, running,
                   disk, pc>>

\* the search raises: RedditRateLimitError or RedditBlockedError (the except
\* clause rotates the address and renews the client session, neither of
\* which is state of this model) or any other exception (log and sleep);
\* after either the for loop takes the next keyword
DiscError ==
    /\ UNCHANGED scraperVars
    /\ pc = "discovery"
    /\ running
    /\ loc.keyword <= NumKeywords
    /\ loc' = [loc EXCEPT !.keyword = @ + 1]
    /\ \E e \in {"rate_limited", "error"} :
           hist' = [hist EXCEPT !.kw_outcome[loc.keyword] = e]
    /\ UNCHANGED <<dedup, exporter, lists, current_batch, discovered, running,
                   disk, pc>>

\* batch_buffer.clear(); self.state.save()
AfterBatch ==
    /\ UNCHANGED scraperVars
    /\ pc = "after_batch"
    /\ LET ls == [lists EXCEPT !.buffer = <<>>]
           s == state_save(dedup, disk, ls[current_batch])
       IN  /\ lists' = ls
           /\ dedup' = s.dedup
           /\ disk' = s.disk
    /\ pc' = "discovery"
    /\ UNCHANGED <<exporter, current_batch, discovered, running, loc, hist>>

\* the keyword loop is over: "Process remaining subreddits"
DiscFinish ==
    /\ UNCHANGED scraperVars
    /\ pc = "discovery"
    /\ loc.keyword > NumKeywords \/ ~running
    /\ IF lists.buffer # <<>>
       THEN /\ loc' = [loc EXCEPT !.subreddits = "buffer",
                                  !.batch_ret = "final_export"]
            /\ pc' = "batch_enter"
       ELSE /\ pc' = "final_export"
            /\ UNCHANGED loc
    /\ UNCHANGED <<dedup, exporter, lists, current_batch, discovered, running,
                   disk, hist>>

\* "Final export": export_chunks(force=True) when the buffer is not empty
FinalExport ==
    /\ UNCHANGED scraperVars
    /\ pc = "final_export"
    /\ IF exporter.pending_users # {}
       THEN /\ loc' = [loc EXCEPT !.force = TRUE, !.exp_ret = "done"]
            /\ pc' = "exp_begin"
       ELSE /\ pc' = "done"
            /\ UNCHANGED loc
    /\ UNCHANGED <<dedup, exporter, lists, current_batch, discovered, running,
                   disk, hist>>

\* ------------------------------------------------ signals, kills, restarts

Alive == pc \notin {"done", "exited", "dead"}

\* where in run the thread is (for the history only)
Phase ==
    IF pc \in {"discovery", "after_batch"} THEN "discovery"
    ELSE IF pc \in {"add_filter", "add_pending"} THEN "add_users"
    ELSE IF pc \in {"exp_begin", "exp_csv", "exp_json", "exp_clear", "exp_upload",
                     "exp_save"}
         THEN "export_chunks"
    ELSE "other"

\* IntegratedPipeline._signal_handler, entered between any two steps of the
\* main thread: state.save(), dedup.save_state(force=True), then the call
\* export_chunks(force=True).  The interrupted frames are never resumed.
SignalHandler ==
    /\ UNCHANGED scraperVars
    /\ Alive
    /\ ~loc.in_handler
    /\ LET s == state_save(dedup, disk, lists[current_batch])
           t == save_state(s.dedup, s.disk, TRUE)
       IN  /\ dedup' = t.dedup
           /\ disk' = t.disk
    /\ loc' = [loc EXCEPT !.in_handler = TRUE, !.force = TRUE,
                          !.exp_ret = "handler_exit"]
    /\ hist' = [hist EXCEPT !.ended = "signal", !.ended_at = Phase]
    /\ pc' = "exp_begin"
    /\ UNCHANGED <<exporter, lists, current_batch, discovered, running>>

\* the end of the handler: self.running = False; sys.exit(0)
HandlerExit ==
    /\ UNCHANGED scraperVars
    /\ pc = "handler_exit"
    /\ running' = FALSE
    /\ pc' = "exited"
    /\ UNCHANGED <<dedup, exporter, lists, current_batch, discovered, disk,
                   loc, hist>>

\* the process is killed: only the files survive
Crash ==
    /\ UNCHANGED scraperVars
    /\ Alive
    /\ pc' = "dead"
    /\ hist' = [HistFresh EXCEPT !.restarts = hist.restarts,
                                 !.open_queue = hist.open_queue,
                                 !.ended = IF loc.in_handler THEN "signal" ELSE "crash",
                                 !.ended_at = IF loc.in_handler THEN hist.ended_at
                                              ELSE Phase]
    /\ dedup' = DedupFresh
    /\ exporter' = ExporterFresh
    /\ lists' = ListsFresh
    /\ current_batch' = "own"
    /\ discovered' = {}
    /\ running' = FALSE
    /\ loc' = LocFresh
    /\ UNCHANGED disk

\* the program is started again on the files the last process left
Restart ==
    /\ UNCHANGED scraperVars
    /\ pc \in {"done", "exited", "dead"}
    /\ hist.restarts < MaxRestarts
    /\ dedup' = Construct(disk).dedup
    /\ exporter' = Construct(disk).exporter
    /\ lists' = Construct(disk).lists
    /\ current_batch' = "own"
    /\ discovered' = {}
    /\ running' = TRUE
    /\ loc' = LocFresh
    /\ pc' = "run_start"
    /\ hist' = [HistFresh EXCEPT !.restarts = hist.restarts + 1,
                                 !.ended = IF pc = "done" THEN "done" ELSE hist.ended,
                                 !.ended_at = hist.ended_at,
                                 !.open_queue = hist.open_queue,
                                 !.boot_queue = disk.pipeline_state,
                                 !.boot_processed = disk.subreddits.processed]
    /\ UNCHANGED disk

Next ==
    \/ RunStart
    \/ Resume
    \/ DiscYield
    \/ DiscKeywordDone
    \/ DiscError
    \/ AfterBatch
    \/ DiscFinish
    \/ FinalExport
    \/ BatchEnter
    \/ BatchLoop
    \/ Harvest
    \/ HarvestRefreshRaises
    \/ Mark
    \/ BatchEnd
    \/ AddFilter
    \/ AddPending
    \/ ExpBegin
    \/ ExpCsv
    \/ ExpJson
    \/ ExpClear
    \/ ExpUpload
    \/ ExpSave
    \/ SignalHandler
    \/ HandlerExit
    \/ Crash
    \/ Restart

Spec == Init /\ [][Next]_vars

\* ------------------------ the pipeline on subreddits without any commenter

\* both gather_commenters_for_subreddit calls return no commenter (or raise,
\* with a refresh that returns): all_commenters stays empty
HarvestNothing == Harvest /\ loc'.all_commenters = {}

\* the run of the pipeline with such harvests: no identity reaches the
\* exporter, the queue and the processed set move as in any run
NextQueue ==
    \/ RunStart
    \/ Resume
    \/ DiscYield
    \/ DiscKeywordDone
    \/ DiscError
    \/ AfterBatch
    \/ DiscFinish
    \/ FinalExport
    \/ BatchEnter
    \/ BatchLoop
    \/ HarvestNothing
    \/ HarvestRefreshRaises
    \/ Mark
    \/ BatchEnd
    \/ ExpBegin
    \/ SignalHandler
    \/ HandlerExit
    \/ Crash
    \/ Restart

SpecQueue == Init /\ [][NextQueue]_vars

\* =============================================== NSFWSubredditScraper.run

pipelineVars == <<dedup, exporter, lists, current_batch, discovered, running,
                  disk, loc, hist>>

\* the pipeline objects, untouched by the scraper
PipelineIdle ==
    /\ disk = DiskEmpty
    /\ dedup = DedupFresh
    /\ exporter = ExporterFresh
    /\ lists = ListsFresh
    /\ current_batch = "own"
    /\ discovered = {}
    /\ running = TRUE
    /\ loc = LocFresh
    /\ hist = HistFresh

InitScraper ==
    /\ PipelineIdle
    /\ ScraperIdle
    /\ pc = "s_verify"

\* verify_proxy: the address check answers or not; without an address run
\* exits with status 1.  Addresses are only ever compared with each other,
\* so the first one seen is named 1.
VerifyProxy ==
    /\ pc = "s_verify"
    /\ \E ip \in {0, 1} :
          IF ip # 0
          THEN /\ scraper' = [scraper EXCEPT !.gluetun.current_ip = ip]
               /\ pc' = "s_load"
          ELSE /\ pc' = "s_exit1"
               /\ UNCHANGED scraper
    /\ UNCHANGED <<checkpoint_file, shist, pipelineVars>>

\* "Load checkpoint if exists" and "Initialize discovery"
LoadCheckpoint ==
    /\ pc = "s_load"
    /\ LET st == checkpoint_load(checkpoint_file)
       IN  scraper' = [scraper EXCEPT !.state = st,
                                      !.discovered = st.discovered_names,
                                      !.phase = 1]
    /\ pc' = "s_phase"
    /\ UNCHANGED <<checkpoint_file, shist, pipelineVars>>

\* the condition under which run enters phase i
EnterPhase(i, s) ==
    IF i = 1
    THEN s.state.current_phase \in {"init", PhaseNames[1]}
    ELSE s.running /\ s.state.current_phase \in {PhaseNames[i - 1], PhaseNames[i]}

\* the "if" at the head of each phase; after the fourth, the export
PhaseHead ==
    /\ pc = "s_phase"
    /\ LET i == scraper.phase
       IN  IF i > Len(PhaseNames)
           THEN /\ pc' = "s_export"
                /\ UNCHANGED <<scraper, shist>>
           ELSE IF EnterPhase(i, scraper)
           THEN /\ scraper' =
                     [scraper EXCEPT
                        !.state.current_phase = PhaseNames[i],
                        !.remaining_keywords =
                            IF i = 1
                            THEN SelectSeq([k \in 1..NumKeywords |-> k],
                                  LAMBDA k : k \notin Range(scraper.state.completed_keywords))
                            ELSE <<>>]
                /\ pc' = IF i = 1 THEN "s_kw_loop" ELSE "s_op_start"
                /\ shist' = shist
           ELSE /\ scraper' = [scraper EXCEPT !.phase = i + 1]
                /\ UNCHANGED <<pc, shist>>
    /\ UNCHANGED <<checkpoint_file, pipelineVars>>

\* "for keyword in remaining_keywords: if not self.running: break"
KeywordLoop ==
    /\ pc = "s_kw_loop"
    /\ IF scraper.remaining_keywords = <<>> \/ ~scraper.running
       THEN /\ scraper' = [scraper EXCEPT !.phase = 2, !.remaining_keywords = <<>>]
            /\ pc' = "s_phase"
            /\ shist' =
                 IF scraper.remaining_keywords # <<>> /\ shist.aborted = "none"
                 THEN [shist EXCEPT !.aborted = PhaseNames[1], !.aborted_by = "stop"]
                 ELSE IF scraper.remaining_keywords = <<>>
                         /\ shist.aborted # PhaseNames[1]
                 THEN [shist EXCEPT !.completed = @ \cup {PhaseNames[1]}]
                 ELSE shist
       ELSE /\ scraper' = [scraper EXCEPT
                              !.keyword = Head(scraper.remaining_keywords),
                              !.remaining_keywords = Tail(@)]
            /\ pc' = "s_op_start"
            /\ shist' = shist
    /\ UNCHANGED <<checkpoint_file, pipelineVars>>

\* _run_with_recovery, "while self.running": the generator function is
\* called anew, or the wrapper ends
OpStart ==
    /\ pc = "s_op_start"
    /\ IF scraper.running
       THEN /\ scraper' = [scraper EXCEPT !.pos = 0]
            /\ pc' = "s_op_run"
            /\ UNCHANGED shist
       ELSE /\ pc' = "s_op_done"
            /\ shist' = [shist EXCEPT !.op_end = "stopped"]
            /\ UNCHANGED scraper
    /\ UNCHANGED <<checkpoint_file, pipelineVars>>

\* the listing gives its next child: _process_listing skips a known name,
\* and adds and yields a new one; _run_with_recovery breaks on a stop
\* request, else run records the entity (_process_subreddit)
OpYield ==
    /\ pc = "s_op_run"
    /\ scraper.pos < NumSubs
    /\ \E display_name \in DisplayNames :
         LET name == Lower(display_name)
             s1 == [scraper EXCEPT !.pos = @ + 1]
         IN  /\ display_name[1] = scraper.pos + 1
             /\ IF name \in scraper.discovered
                THEN /\ scraper' = s1
                     /\ UNCHANGED <<pc, shist>>
                ELSE IF ~scraper.running
                THEN /\ scraper' = [s1 EXCEPT !.discovered = @ \cup {name}]
                     /\ pc' = "s_op_done"
                     /\ shist' = [shist EXCEPT !.op_end = "stopped"]
                ELSE /\ scraper' =
                          [s1 EXCEPT !.discovered = @ \cup {name},
                                     !.state.discovered_subreddits = Append(@, name)]
                     /\ UNCHANGED <<pc, shist>>
    /\ UNCHANGED <<checkpoint_file, pipelineVars>>

\* the listing has no further page: "return  # Generator completed"
OpComplete ==
    /\ pc = "s_op_run"
    /\ pc' = "s_op_done"
    /\ shist' = [shist EXCEPT !.op_end = "complete"]
    /\ UNCHANGED <<scraper, checkpoint_file, pipelineVars>>

\* a request of a listing operation is answered 429, 403 or 503:
\* RedditRateLimitError or RedditBlockedError reaches the except clause of
\* _run_with_recovery
OpRateLimited ==
    /\ pc = "s_op_run"
    /\ PhaseNames[scraper.phase] # "related"
    /\ shist.rate_limits < shist.budget
    /\ pc' = "s_handle"
    /\ shist' = [shist EXCEPT !.rate_limits = @ + 1]
    /\ UNCHANGED <<scraper, checkpoint_file, pipelineVars>>

\* a request of explore_related_queue is answered 429, 403 or 503:
\* get_subreddit_sidebar turns any exception into None, and discover_related
\* logs any exception of get_subreddit_about at debug level; either way the
\* entity is passed over and the generator goes on
RelatedRateLimited ==
    /\ pc = "s_op_run"
    /\ PhaseNames[scraper.phase] = "related"
    /\ shist.rate_limits < shist.budget
    /\ scraper.pos < NumSubs
    /\ scraper' = [scraper EXCEPT !.pos = @ + 1]
    /\ shist' = [shist EXCEPT !.rate_limits = @ + 1]
    /\ UNCHANGED <<pc, checkpoint_file, pipelineVars>>

\* any other exception of a listing operation passes through
\* _run_with_recovery (those of explore_related_queue are caught inside it)
OpError ==
    /\ pc = "s_op_run"
    /\ PhaseNames[scraper.phase] # "related"
    /\ pc' = "s_op_raise"
    /\ UNCHANGED <<scraper, checkpoint_file, shist, pipelineVars>>

\* the except clause of _run_with_recovery: _handle_rate_limit_or_block for
\* any answer of the rotator; True: "continue", back to the head of the
\* while loop; False: "raise"
HandleRateLimit ==
    /\ pc = "s_handle"
    /\ \E o \in RotatorOutcomes, ua \in UserAgents :
         LET h == handle_rate_limit_or_block(scraper, o, ua)
             moved == h.scraper.gluetun.current_ip # scraper.gluetun.current_ip
         IN  /\ scraper' = h.scraper
             /\ checkpoint_file' = h.file
             /\ pc' = IF h.ret THEN "s_op_start" ELSE "s_op_raise"
             /\ shist' = [shist EXCEPT
                    !.rotation_requests = @ + 1,
                    !.last_rotation = h.rotation.ret,
                    !.unchanged_streak = IF ~h.rotation.restarted THEN @
                                         ELSE IF moved THEN 0 ELSE @ + 1,
                    !.cycles = IF h.ret THEN @ + 1 ELSE @,
                    !.saved_after_abort = @ \/ shist.aborted # "none"]
    /\ UNCHANGED pipelineVars

\* the wrapped generator ended without an exception: phase 1 appends the
\* keyword to completed_keywords; every phase saves the checkpoint
PhaseOpDone ==
    /\ pc = "s_op_done"
    /\ LET i == scraper.phase
           s0 == IF i = 1
                 THEN [scraper EXCEPT
                         !.state.completed_keywords = Append(@, scraper.keyword)]
                 ELSE scraper
           c == save_checkpoint(s0)
           stopped == shist.op_end = "stopped"
           h1 == IF stopped /\ shist.aborted = "none"
                 THEN [shist EXCEPT !.aborted = PhaseNames[i], !.aborted_by = "stop"]
                 ELSE IF ~stopped /\ i > 1
                 THEN [shist EXCEPT !.completed = @ \cup {PhaseNames[i]}]
                 ELSE shist
       IN  /\ scraper' = IF i = 1 THEN c.scraper
                         ELSE [c.scraper EXCEPT !.phase = i + 1]
           /\ checkpoint_file' = c.file
           /\ pc' = IF i = 1 THEN "s_kw_loop" ELSE "s_phase"
           /\ shist' = [h1 EXCEPT !.saved_after_abort = @ \/ h1.aborted # "none",
                                   !.cycles = 0, !.op_end = "none",
                                   !.last_rotation = "none"]
    /\ UNCHANGED pipelineVars

\* "except Exception" of the phase: log, save the checkpoint, and (phase 1)
\* break; run goes on with the "if" of the next phase
PhaseOpRaise ==
    /\ pc = "s_op_raise"
    /\ LET i == scraper.phase
           c == save_checkpoint(scraper)
       IN  /\ scraper' = [c.scraper EXCEPT !.phase = i + 1,
                                           !.remaining_keywords = <<>>]
           /\ checkpoint_file' = c.file
           /\ shist' = [shist EXCEPT
                  !.aborted = IF @ = "none" THEN PhaseNames[i] ELSE @,
                  !.aborted_by = IF shist.aborted = "none" THEN "error" ELSE @,
                  !.saved_after_abort = TRUE,
                  !.cycles = 0, !.op_end = "none", !.last_rotation = "none"]
    /\ pc' = "s_phase"
    /\ UNCHANGED pipelineVars

\* "Export results", with both writes of Exporter.export_all succeeding (the
\* content of the two files is not modelled)
Export ==
    /\ pc = "s_export"
    /\ scraper' = [scraper EXCEPT !.state.current_phase = "export"]
    /\ pc' = "s_finish"
    /\ UNCHANGED <<checkpoint_file, shist, pipelineVars>>

\* "Export results" with a write of export_json or export_csv that fails:
\* open() or the dump raises OSError, export_all and run have no handler for
\* it, the interpreter prints the traceback and ends with status 1
ExportRaises ==
    /\ pc = "s_export"
    /\ scraper' = [scraper EXCEPT !.state.current_phase = "export"]
    /\ pc' = "s_raised"
    /\ UNCHANGED <<checkpoint_file, shist, pipelineVars>>

\* the exit status of the process: sys.exit(1) of run, an uncaught exception,
\* or the return of run
ExitStatus == IF pc \in {"s_exit1", "s_raised"} THEN 1 ELSE 0

\* "Clean up checkpoint on successful completion": if self.running
Finish ==
    /\ pc = "s_finish"
    /\ IF scraper.running
       THEN /\ checkpoint_file' = checkpoint_delete(checkpoint_file)
            /\ shist' = [shist EXCEPT !.deleted = TRUE]
       ELSE UNCHANGED <<checkpoint_file, shist>>
    /\ pc' = "s_end"
    /\ UNCHANGED <<scraper, pipelineVars>>

\* NSFWSubredditScraper._signal_handler: only the flag
ScraperSignal ==
    /\ pc \in {"s_verify", "s_load", "s_phase", "s_kw_loop", "s_op_start",
               "s_op_run", "s_handle", "s_op_done", "s_op_raise", "s_export",
               "s_finish"}
    /\ scraper.running
    /\ scraper' = [scraper EXCEPT !.running = FALSE]
    /\ UNCHANGED <<pc, checkpoint_file, shist, pipelineVars>>

\* the same command is run again: new objects, the checkpoint file as left
ScraperRestart ==
    /\ pc = "s_end"
    /\ shist.starts < MaxRestarts
    /\ scraper' = ScraperFresh
    /\ shist' = [SHistFresh EXCEPT !.starts = shist.starts + 1,
                                   !.rate_limits = shist.rate_limits,
                                   !.rotation_requests = shist.rotation_requests]
    /\ pc' = "s_verify"
    /\ UNCHANGED <<checkpoint_file, pipelineVars>>

NextScraper ==
    \/ VerifyProxy
    \/ LoadCheckpoint
    \/ PhaseHead
    \/ KeywordLoop
    \/ OpStart
    \/ OpYield
    \/ OpComplete
    \/ OpRateLimited
    \/ RelatedRateLimited
    \/ OpError
    \/ HandleRateLimit
    \/ PhaseOpDone
    \/ PhaseOpRaise
    \/ Export
    \/ ExportRaises
    \/ Finish
    \/ ScraperSignal
    \/ ScraperRestart

SpecScraper == InitScraper /\ [][NextScraper]_vars

\* ======================================= _run_with_recovery, one operation

\* A caller of the wrapper alone: a scraper whose proxy is verified wraps
\* discover_from_popular, time after time.
InitRecovery ==
    /\ PipelineIdle
    /\ scraper = [ScraperFresh EXCEPT !.gluetun.current_ip = 1, !.phase = 2]
    /\ checkpoint_file = CheckpointAbsent
    /\ shist = [SHistFresh EXCEPT !.budget = MaxRateLimits]
    /\ pc = "r_idle"

\* for item in self._run_with_recovery(operation, ...)
CallOperation ==
    /\ pc = "r_idle"
    /\ shist' = [shist EXCEPT !.cycles = 0, !.op_end = "none",
                              !.last_rotation = "none"]
    /\ pc' = "s_op_start"
    /\ UNCHANGED <<scraper, checkpoint_file, pipelineVars>>

\* the wrapper ended, with or without an exception
OperationReturns ==
    /\ pc \in {"s_op_done", "s_op_raise"}
    /\ pc' = "r_idle"
    /\ UNCHANGED <<scraper, checkpoint_file, shist, pipelineVars>>

NextRecovery ==
    \/ CallOperation
    \/ OperationReturns
    \/ OpStart
    \/ OpYield
    \/ OpComplete
    \/ OpRateLimited
    \/ OpError
    \/ HandleRateLimit
    \/ ScraperSignal

SpecRecovery == InitRecovery /\ [][NextRecovery]_vars

\* ------------------------ the wrapped operation across checkpoint and resume

\* The same caller, which also saves the checkpoint between two operations
\* as the phases of run do, and whose process can end anywhere and be
\* started again on the checkpoint file.
InitResume ==
    /\ PipelineIdle
    /\ scraper = [ScraperFresh EXCEPT !.gluetun.current_ip = 1, !.phase = 2]
    /\ checkpoint_file = CheckpointAbsent
    /\ shist = SHistFresh
    /\ pc = "r_idle"

\* self._save_checkpoint() after the loop over the wrapper
PhaseSaveCheckpoint ==
    /\ pc = "r_idle"
    /\ LET c == save_checkpoint(scraper)
       IN  /\ scraper' = c.scraper
           /\ checkpoint_file' = c.file
    /\ UNCHANGED <<pc, shist, pipelineVars>>

\* the process ends, wherever it is, and the command is run again: "Load
\* checkpoint if exists", then load_discovered(self.state.discovered_names)
StartAgain ==
    /\ shist.starts < MaxRestarts
    /\ LET st == checkpoint_load(checkpoint_file)
       IN  scraper' = [ScraperFresh EXCEPT !.gluetun.current_ip = 1, !.phase = 2,
                                          !.state = st,
                                          !.discovered = st.discovered_names]
    /\ shist' = [SHistFresh EXCEPT !.starts = shist.starts + 1,
                                   !.rate_limits = shist.rate_limits,
                                   !.rotation_requests = shist.rotation_requests]
    /\ pc' = "r_idle"
    /\ UNCHANGED <<checkpoint_file, pipelineVars>>

NextResume ==
    \/ NextRecovery
    \/ PhaseSaveCheckpoint
    \/ StartAgain

SpecResume == InitResume /\ [][NextResume]_vars

\* ============================================ GluetunController, by itself

\* A caller of the controller alone: verify_proxy_active,
\* restart_for_new_ip and reset_restart_counter in any order, on a controller
\* as __init__ leaves it.
InitController ==
    /\ PipelineIdle
    /\ scraper = ScraperFresh
    /\ checkpoint_file = CheckpointAbsent
    /\ shist = [SHistFresh EXCEPT !.budget = MaxRateLimits]
    /\ pc = "c_idle"

\* gluetun.restart_for_new_ip() for any answer of Docker and of the proxy
CallRestartForNewIp ==
    /\ pc = "c_idle"
    /\ shist.rotation_requests < shist.budget
    /\ \E o \in RotatorOutcomes :
         LET r == restart_for_new_ip(scraper.gluetun, o)
         IN  /\ scraper' = [scraper EXCEPT !.gluetun = r.gluetun]
             /\ shist' = [shist EXCEPT
                    !.rotation_requests = @ + 1,
                    !.last_rotation = r.ret,
                    !.unchanged_streak =
                        IF ~r.restarted THEN @
                        ELSE IF r.gluetun.current_ip # scraper.gluetun.current_ip
                        THEN 0 ELSE @ + 1,
                    !.restarted_from = IF r.restarted
                                       THEN scraper.gluetun.restart_count ELSE @]
    /\ UNCHANGED <<pc, checkpoint_file, pipelineVars>>

\* gluetun.reset_restart_counter()
CallResetRestartCounter ==
    /\ pc = "c_idle"
    /\ scraper' = [scraper EXCEPT !.gluetun = reset_restart_counter(@)]
    /\ UNCHANGED <<pc, checkpoint_file, shist, pipelineVars>>

\* gluetun.verify_proxy_active(): the address the check returns is kept; no
\* answer (0) leaves the controller as it was
CallVerifyProxyActive ==
    /\ pc = "c_idle"
    /\ \E ip \in Ips \cup {0} :
          scraper' = IF ip # 0
                     THEN [scraper EXCEPT !.gluetun.current_ip = ip]
                     ELSE scraper
    /\ UNCHANGED <<pc, checkpoint_file, shist, pipelineVars>>

NextController ==
    \/ CallVerifyProxyActive
    \/ CallRestartForNewIp
    \/ CallResetRestartCounter

SpecController == InitController /\ [][NextController]_vars


\* ============================ DeduplicationManager, operation by operation

\* A caller of the manager alone: any operation on any name, a save, and a
\* new manager built on the files the old one left.
InitDedup ==
    /\ PipelineIdle
    /\ ScraperIdle
    /\ pc = "d_idle"

dedupCallerVars == <<exporter, lists, current_batch, discovered, running, loc,
                     hist, pc, scraper, checkpoint_file, shist>>

CallMarkDiscovered ==
    /\ pc = "d_idle"
    /\ \E name \in DisplayNames :
         LET r == mark_subreddit_discovered(dedup, disk, name)
         IN  dedup' = r.dedup /\ disk' = r.disk
    /\ UNCHANGED dedupCallerVars

CallMarkQueued ==
    /\ pc = "d_idle"
    /\ \E name \in DisplayNames : dedup' = mark_subreddit_queued(dedup, name)
    /\ UNCHANGED <<disk, dedupCallerVars>>

CallSetQueue ==
    /\ pc = "d_idle"
    /\ \E a, b \in DisplayNames :
         \E subreddits \in {<<>>, <<a>>, <<a, b>>} :
            dedup' = set_queue(dedup, subreddits)
    /\ UNCHANGED <<disk, dedupCallerVars>>

CallClearQueue ==
    /\ pc = "d_idle"
    /\ dedup' = clear_queue(dedup)
    /\ UNCHANGED <<disk, dedupCallerVars>>

CallMarkProcessed ==
    /\ pc = "d_idle"
    /\ \E name \in DisplayNames :
         LET r == mark_subreddit_processed(dedup, disk, name)
         IN  dedup' = r.dedup /\ disk' = r.disk
    /\ UNCHANGED dedupCallerVars

CallSaveState ==
    /\ pc = "d_idle"
    /\ \E force \in BOOLEAN :
         LET r == save_state(dedup, disk, force)
         IN  dedup' = r.dedup /\ disk' = r.disk
    /\ UNCHANGED dedupCallerVars

\* DeduplicationManager(output_dir) on the same directory: _load_state
Reload ==
    /\ pc = "d_idle"
    /\ dedup' = dedup_load_state(disk)
    /\ UNCHANGED <<disk, dedupCallerVars>>

NextDedup ==
    \/ CallMarkDiscovered
    \/ CallMarkQueued
    \/ CallSetQueue
    \/ CallClearQueue
    \/ CallMarkProcessed
    \/ CallSaveState
    \/ Reload

SpecDedup == InitDedup /\ [][NextDedup]_vars


\* ===================================== the saves, with writes that can fail

\* DeduplicationManager.save_state when the write of the subreddit file
\* (ok_subs) or of the user file (ok_users) can fail: each write is in its
\* own try, a failure is printed, and the file and the counter stay
save_state_failing(d, k, force, ok_subs, ok_users) ==
    LET subs == (force \/ d.ops_since_save >= DEDUP_PERSIST_INTERVAL) /\ ok_subs
        usrs == (force \/ d.user_ops_since_save >= DEDUP_PERSIST_INTERVAL * 10)
                    /\ ok_users
    IN  [dedup |-> [d EXCEPT !.ops_since_save = IF subs THEN 0 ELSE @,
                             !.user_ops_since_save = IF usrs THEN 0 ELSE @],
         disk  |-> [k EXCEPT !.subreddits =
                                 IF subs
                                 THEN [discovered |-> d.discovered_subreddits,
                                       processed |-> d.processed_subreddits]
                                 ELSE @,
                             !.users = IF usrs THEN d.seen_users ELSE @],
         raised |-> FALSE]

\* PipelineState.save when the write of pipeline_state.json can fail: no try
\* surrounds it, the exception leaves save and dedup.save_state is not reached
state_save_failing(d, k, batch, ok) ==
    IF ok
    THEN [dedup |-> state_save(d, k, batch).dedup,
          disk |-> state_save(d, k, batch).disk, raised |-> FALSE]
    ELSE [dedup |-> d, disk |-> k, raised |-> TRUE]

\* UserExporter._save_state when the write of exporter_state.json can fail
exporter_save_state_failing(e, k, ok) ==
    IF ok
    THEN [disk |-> exporter_save_state(e, k), raised |-> FALSE]
    ELSE [disk |-> k, raised |-> TRUE]

\* the sets and the buffer held in memory
Memory(d, e) ==
    <<d.discovered_subreddits, d.processed_subreddits, d.queued_subreddits,
      d.seen_users, e.pending_users>>

ioCallerVars == <<exporter, lists, current_batch, discovered, running, loc,
                  pc, scraper, checkpoint_file, shist>>

\* dedup.save_state(force) with failing writes
CallSaveStateFailing ==
    /\ pc = "d_idle"
    /\ \E force, ok_subs, ok_users \in BOOLEAN :
         LET r == save_state_failing(dedup, disk, force, ok_subs, ok_users)
         IN  /\ dedup' = r.dedup
             /\ disk' = r.disk
             /\ hist' = [hist EXCEPT !.io =
                    [failed |-> ~(ok_subs /\ ok_users),
                     raised |-> IF r.raised THEN "save_state" ELSE "none",
                     changed |-> Memory(r.dedup, exporter) # Memory(dedup, exporter)]]
    /\ UNCHANGED ioCallerVars

\* state.save() with a failing write
CallStateSave ==
    /\ pc = "d_idle"
    /\ \E ok \in BOOLEAN :
         LET r == state_save_failing(dedup, disk, lists[current_batch], ok)
         IN  /\ dedup' = r.dedup
             /\ disk' = r.disk
             /\ hist' = [hist EXCEPT !.io =
                    [failed |-> ~ok,
                     raised |-> IF r.raised THEN "PipelineState.save" ELSE "none",
                     changed |-> Memory(r.dedup, exporter) # Memory(dedup, exporter)]]
    /\ UNCHANGED ioCallerVars

\* user_exporter._save_state() with a failing write
CallExporterSaveState ==
    /\ pc = "d_idle"
    /\ \E ok \in BOOLEAN :
         LET r == exporter_save_state_failing(exporter, disk, ok)
         IN  /\ disk' = r.disk
             /\ hist' = [hist EXCEPT !.io =
                    [failed |-> ~ok,
                     raised |-> IF r.raised THEN "UserExporter._save_state"
                                ELSE "none",
                     changed |-> FALSE]]
    /\ UNCHANGED <<dedup, ioCallerVars>>

NextIo ==
    \/ CallMarkDiscovered
    \/ CallMarkProcessed
    \/ CallSaveStateFailing
    \/ CallStateSave
    \/ CallExporterSaveState
    \/ Reload

SpecIo == InitDedup /\ [][NextIo]_vars

\* ======================================== gather_commenters_for_subreddit

\* what an exception of scrape_post_details says: the five substrings the
\* loop looks for, and a message with none of them
ErrorMessages == {"403", "429", "Connection", "timeout", "Temporary", "404"}

is_recoverable_any(error_msg) == error_msg \in ErrorMessages

\* is_recoverable = any(code in error_msg for code in [...])
is_recoverable(error_msg) ==
    error_msg \in {"403", "429", "Connection", "timeout", "Temporary"}

\* the limit and the max_retries argument of the three fetch_with_retry
\* calls: (limit, 5), (limit // 2, 3), (limit // 2, 3), the retries scaled
fetch_limit(stage) ==
    IF stage = "top" THEN POSTS_PER_SUBREDDIT ELSE POSTS_PER_SUBREDDIT \div 2

fetch_max_retries(stage) == IF stage = "top" THEN 3 ELSE 2

\* what follows the fetch_with_retry call of a stage that left n posts: the
\* "hot" fallback below limit * 0.5, the "new" fallback below limit * 0.75,
\* else the loop over the posts
after_fetch(stage, n) ==
    IF stage = "top" /\ 2 * n < POSTS_PER_SUBREDDIT THEN "hot"
    ELSE IF stage # "new" /\ 4 * n < 3 * POSTS_PER_SUBREDDIT THEN "new"
    ELSE "posts"

\* a retry whose count starts anew with every refreshed miner
post_retry_restarting(g, refreshed) ==
    [g EXCEPT !.retry = IF refreshed THEN 0 ELSE @ + 1,
              !.miner = IF refreshed THEN @ + 1 ELSE @]

post_retry_uncounted(g, refreshed) ==
    [g EXCEPT !.miner = IF refreshed THEN @ + 1 ELSE @]

\* the two except clauses that retry: retry += 1 and, when the callback was
\* called and returned, its miner
post_retry(g, refreshed) ==
    [g EXCEPT !.retry = @ + 1, !.miner = IF refreshed THEN @ + 1 ELSE @]

gatherOtherVars == <<scraperVars, dedup, exporter, lists, current_batch,
                     discovered, running, disk>>

\* one attempt of fetch_with_retry: the listing (some posts with a permalink
\* not seen yet), TooManyRequestsError (refresh and try again, or give up
\* with no posts at the last attempt), or another exception, which leaves
\* gather_commenters_for_subreddit; so does an exception of the callback
FetchAttempt ==
    /\ pc = "g_fetch"
    /\ LET g == loc.gather
           last == ~(g.attempt < fetch_max_retries(g.stage) - 1)
           next(n) == IF after_fetch(g.stage, n) = "posts"
                      THEN [g EXCEPT !.posts = n, !.attempt = 0, !.stage = "posts"]
                      ELSE [g EXCEPT !.posts = n, !.attempt = 0,
                                     !.stage = after_fetch(g.stage, n)]
       IN  \E answer \in {"posts", "too_many", "error"} :
             CASE answer = "posts" ->
                    \E fresh \in 0..(IF NumPosts < fetch_limit(g.stage)
                                     THEN NumPosts ELSE fetch_limit(g.stage)) :
                       /\ loc' = [loc EXCEPT !.gather = next(g.posts + fresh)]
                       /\ pc' = IF after_fetch(g.stage, g.posts + fresh) = "posts"
                                THEN "g_post_head" ELSE "g_fetch"
                       /\ hist' = hist
               [] answer = "too_many" ->
                    /\ hist.gather.failures < MaxFetchFailures
                    /\ hist' = [hist EXCEPT !.gather.failures = @ + 1]
                    /\ IF last
                       THEN /\ loc' = [loc EXCEPT !.gather = next(g.posts)]
                            /\ pc' = IF after_fetch(g.stage, g.posts) = "posts"
                                     THEN "g_post_head" ELSE "g_fetch"
                       ELSE \E refresh \in {"returns", "raises"} :
                              IF g.callback /\ refresh = "raises"
                              THEN /\ pc' = "g_raised"
                                   /\ loc' = loc
                              ELSE /\ pc' = "g_fetch"
                                   /\ loc' = [loc EXCEPT !.gather =
                                         [g EXCEPT !.attempt = @ + 1,
                                                   !.miner = IF g.callback
                                                             THEN @ + 1 ELSE @]]
               [] answer = "error" ->
                    /\ pc' = "g_raised"
                    /\ UNCHANGED <<loc, hist>>
    /\ UNCHANGED gatherOtherVars

\* "for idx, post in enumerate(posts)": the next post, skipped when it has no
\* permalink; after the last one the summary is returned
PostHead ==
    /\ pc = "g_post_head"
    /\ hist' = [hist EXCEPT !.gather.outcomes = <<>>]
    /\ IF loc.gather.idx = loc.gather.posts
       THEN /\ pc' = "g_done"
            /\ loc' = loc
       ELSE \E permalink \in BOOLEAN :
              /\ loc' = [loc EXCEPT !.gather.idx = @ + 1, !.gather.retry = 0]
              /\ pc' = IF permalink THEN "g_post_try" ELSE "g_post_head"
    /\ UNCHANGED gatherOtherVars

\* "while retry < max_retries": one call of scrape_post_details.  Details
\* end the loop and are summarised; TooManyRequestsError and a recoverable
\* error count a retry and call refresh_callback when there is one; any
\* other error ends the loop without details
PostTry ==
    /\ pc = "g_post_try"
    /\ loc.gather.retry < max_retries
    /\ LET g == loc.gather
       IN  \/ \E commenters \in SUBSET Commenters :
                /\ loc' = [loc EXCEPT !.gather =
                              [g EXCEPT !.unique_commenters = @ \cup commenters,
                                        !.post_count = @ + 1]]
                /\ hist' = [hist EXCEPT !.gather.fetched = @ \cup {g.idx}]
                /\ pc' = "g_post_head"
           \/ \E error_msg \in ErrorMessages \cup {"TooManyRequestsError"},
                 refresh \in {"returns", "raises"} :
                IF error_msg = "TooManyRequestsError" \/ is_recoverable(error_msg)
                THEN /\ hist.gather.failures < MaxFetchFailures
                     /\ hist' = [hist EXCEPT
                           !.gather.failures = @ + 1,
                           !.gather.outcomes =
                               Append(@, [error |-> error_msg, refreshed |-> g.callback])]
                     /\ IF g.callback /\ refresh = "raises"
                        THEN /\ loc' = [loc EXCEPT !.gather.retry = @ + 1]
                             /\ pc' = "g_raised"
                        ELSE /\ loc' = [loc EXCEPT !.gather = post_retry(g, g.callback)]
                             /\ pc' = "g_post_try"
                ELSE /\ hist' = [hist EXCEPT
                           !.gather.outcomes =
                               Append(@, [error |-> error_msg, refreshed |-> FALSE]),
                           !.gather.abandoned = @ \cup {g.idx}]
                     /\ loc' = loc
                     /\ pc' = "g_post_head"
    /\ UNCHANGED gatherOtherVars

\* the loop ends with retry = max_retries: "Could not fetch post details"
PostGiveUp ==
    /\ pc = "g_post_try"
    /\ ~(loc.gather.retry < max_retries)
    /\ hist' = [hist EXCEPT !.gather.exhausted = @ \cup {loc.gather.idx}]
    /\ pc' = "g_post_head"
    /\ UNCHANGED <<loc, gatherOtherVars>>

\* ------------------------------------------ a caller of the harvest alone

InitGather ==
    /\ PipelineIdle
    /\ ScraperIdle
    /\ pc = "g_idle"

\* gather_commenters_for_subreddit(miner, ..., category="top", ...) with or
\* without a refresh_callback
CallGather ==
    /\ pc = "g_idle"
    /\ \E callback \in BOOLEAN :
         loc' = [loc EXCEPT !.gather =
                    [GatherFresh EXCEPT !.callback = callback, !.stage = "top"]]
    /\ hist' = [hist EXCEPT !.gather = GatherHistFresh]
    /\ pc' = "g_fetch"
    /\ UNCHANGED gatherOtherVars

\* the summary is returned, or an exception leaves the harvest
GatherReturns ==
    /\ pc \in {"g_done", "g_raised"}
    /\ pc' = "g_idle"
    /\ UNCHANGED <<loc, hist, gatherOtherVars>>

NextGather ==
    \/ CallGather
    \/ FetchAttempt
    \/ PostHead
    \/ PostTry
    \/ PostGiveUp
    \/ GatherReturns

SpecGather == InitGather /\ [][NextGather]_vars

\* the harvest is straight-line code of one thread: a statement that can run
\* does run (every request is answered or times out)
SpecGatherFair ==
    /\ SpecGather
    /\ WF_vars(FetchAttempt)
    /\ WF_vars(PostHead)
    /\ WF_vars(PostTry)
    /\ WF_vars(PostGiveUp)

\* ================================================================ claims

\* the ordinals of the chunk files that hold the name u
ChunksHolding(u) == {o \in Ordinals(disk) : u \in ChunkUsers(disk, o)}

\* no name is held by the chunk files of two ordinals
ChunksDisjoint ==
    \A o1, o2 \in Ordinals(disk) :
        o1 # o2 => ChunkUsers(disk, o1) \cap ChunkUsers(disk, o2) = {}

\* C1: when the loop of _process_subreddit_batch has run to its end without
\* a stop request, the entities it reached (skipped as already processed, or
\* harvested and marked processed) are the batch it was handed, in batch
\* order, and every one of them is processed.
ClaimC1_BatchFullyHandled ==
    (pc = "batch_end" /\ running) =>
        /\ hist.handled = hist.batch_arg
        /\ Range(hist.batch_arg) \subseteq dedup.processed_subreddits

\* C2: when the resume step of run returns, it has harvested exactly the
\* members of the persisted queue that were not in the persisted processed
\* set, each once, and all of them are marked processed.
ClaimC2_ResumeComplete ==
    (pc = "batch_end" /\ loc.batch_ret = "discovery") =>
        /\ hist.harvested =
               SelectSeq(hist.boot_queue, LAMBDA x : x \notin hist.boot_processed)
        /\ Range(hist.harvested) \subseteq dedup.processed_subreddits

\* C3: over a whole run, restarts included, no identity is in the chunk
\* files of two ordinals, and every identity of a chunk file is, lower-cased,
\* in seen_users.
ClaimC3_NoDuplicateExport ==
    /\ ChunksDisjoint
    /\ LowerAll(AllChunkUsers(disk)) \subseteq dedup.seen_users \cup disk.users

\* C4: after a kill and a restart, every identity of the persisted seen-set
\* is in a chunk file or in the pending buffer restored from
\* exporter_state.json.
ClaimC4_NoIdentityLostByRestart ==
    (pc = "run_start" /\ hist.restarts > 0 /\ hist.ended = "crash") =>
        \A u \in disk.users :
            \E n \in exporter.pending_users \cup AllChunkUsers(disk) : Lower(n) = u

\* C5: after a signal or a kill in the discovery loop and a restart, every
\* entity that is persisted as discovered and not as processed is in the
\* persisted batch queue or can still be yielded by discovery.
ClaimC5_NoEntityLostInDiscovery ==
    (/\ pc = "resume"
     /\ hist.restarts > 0
     /\ hist.ended \in {"signal", "crash"}
     /\ hist.ended_at = "discovery") =>
        \A s \in disk.subreddits.discovered \ disk.subreddits.processed :
            s \in Range(disk.pipeline_state) \/ s \notin discovered

\* C6: when the signal handler has saved and flushed and the process exits,
\* every identity accepted in the run is in the chunk files of exactly one
\* ordinal.
ClaimC6_SignalLeavesNothingHalfDone ==
    pc = "exited" =>
        \A u \in hist.accepted : Cardinality(ChunksHolding(u)) = 1

\* C7: between calls of add_users and export_chunks, and inside export_chunks,
\* pending_users together with the chunk files holds exactly the identities
\* filter_new_users accepted, no identity is in two chunks, and between calls
\* none is both pending and in a chunk.
TheoremC7_BufferPlusChunksIsAccepted ==
    /\ pc # "add_pending" =>
           exporter.pending_users \cup AllChunkUsers(disk) = hist.accepted
    /\ ChunksDisjoint
    /\ pc = "idle" => exporter.pending_users \cap AllChunkUsers(disk) = {}

\* between calls, with a chunk on disk and a later identity still pending
WitnessC7 ==
    /\ pc = "idle"
    /\ Ordinals(disk) # {}
    /\ exporter.pending_users # {}
    /\ exporter.total_exported > 0

\* C8: a call of filter_new_users with names none of which was seen returns
\* the whole set and makes all of them seen; a call with names that are all
\* accepted names or case variants of accepted names (the same set a second
\* time included) returns the empty set.
TheoremC8_IdempotentAdmission ==
    [][(pc = "add_filter" /\ pc' = "add_pending") =>
          LET users == loc.all_commenters
          IN  /\ LowerAll(users) \cap dedup.seen_users = {} =>
                     /\ loc'.new_users = users
                     /\ LowerAll(users) \subseteq dedup'.seen_users
              /\ LowerAll(users) \subseteq LowerAll(hist.accepted) =>
                     /\ loc'.new_users = {}
                     /\ dedup'.seen_users = dedup.seen_users]_vars

\* a call that offered an accepted name together with a case variant that was
\* never accepted itself, and got nothing back
WitnessC8 ==
    /\ pc = "add_pending"
    /\ loc.new_users = {}
    /\ \E u \in loc.all_commenters : u \in hist.accepted
    /\ \E v \in loc.all_commenters :
           v \notin hist.accepted /\ Lower(v) \in LowerAll(hist.accepted)

\* C9: pending_users and the chunk files never hold two names with the same
\* lower-cased form.
ClaimC9_OneSpellingPerIdentity ==
    \A a, b \in exporter.pending_users \cup AllChunkUsers(disk) :
        Lower(a) = Lower(b) => a = b

\* C10: no chunk file holds more than USERS_CHUNK_SIZE identities, and a
\* forced export_chunks call that found n pending identities has written
\* ceil(n / USERS_CHUNK_SIZE) chunks when it returns, and returns that number.
TheoremC10_ChunkSizeAndCount ==
    /\ \A o \in DOMAIN disk.csv : Len(disk.csv[o]) <= USERS_CHUNK_SIZE
    /\ \A o \in DOMAIN disk.json :
           /\ Len(disk.json[o].users) <= USERS_CHUNK_SIZE
           /\ disk.json[o].count <= USERS_CHUNK_SIZE
    /\ (hist.exp_force /\ hist.exp_result >= 0) =>
           /\ hist.exp_result = Ceil(hist.exp_n, USERS_CHUNK_SIZE)
           /\ exporter.chunk_count = hist.exp_c0 + hist.exp_result
           /\ \A o \in (hist.exp_c0 + 1)..exporter.chunk_count :
                  o \in DOMAIN disk.csv /\ o \in DOMAIN disk.json
           /\ hist.exp_n = 0 => hist.exp_result = 0

\* a forced call that found three identities and wrote two chunks
WitnessC10 ==
    /\ hist.exp_force
    /\ hist.exp_n = USERS_CHUNK_SIZE + 1
    /\ hist.exp_result = 2
    /\ pc = "idle"

\* ------------------------------------------------ claims on the scraper

\* C11: for one operation wrapped by _run_with_recovery, the number of
\* rotate-and-retry cycles never exceeds max_restart_attempts, whatever the
\* remote source and the rotator answer.
ClaimC11_RetryCyclesBounded ==
    shist.cycles <= max_restart_attempts

\* C12: when max_restart_attempts restarts in a row have happened without the
\* public address changing, the handling of the next rate-limit or block
\* restarts nothing and retries nothing: restart_for_new_ip raises and the
\* wrapper passes the error on to its caller.
TheoremC12_NoRetryAtLimit ==
    [][(/\ pc = "s_handle"
        /\ pc' # "s_handle"
        /\ shist.unchanged_streak = max_restart_attempts)
       => /\ shist'.last_rotation = "raise"
          /\ scraper'.gluetun = scraper.gluetun
          /\ pc' = "s_op_raise"]_vars

WitnessC12 ==
    /\ pc = "s_op_raise"
    /\ shist.last_rotation = "raise"
    /\ shist.unchanged_streak = max_restart_attempts

\* C13: a rate-limit or block error of the wrapped operation causes exactly
\* one rotation request.  When the rotation succeeds the client gets a
\* re-drawn user agent and a new session, and control is back at the head of
\* the wrapper with the same operation and arguments, where the operation
\* is started from its beginning.  When it fails, the client is left as it
\* was and the error is raised to the caller.
TheoremC13_RotateOnceThenRetryOrRaise ==
    [][/\ (pc = "s_handle" /\ pc' # "s_handle")
          => /\ shist'.rotation_requests = shist.rotation_requests + 1
             /\ IF shist'.last_rotation = "true"
                THEN /\ scraper'.client.session # scraper.client.session
                     /\ scraper'.client.user_agent \in UserAgents
                     /\ pc' = "s_op_start"
                     /\ scraper'.phase = scraper.phase
                     /\ scraper'.keyword = scraper.keyword
                ELSE /\ scraper'.client = scraper.client
                     /\ pc' = "s_op_raise"
       /\ (pc # "s_handle" \/ pc' = "s_handle")
          => shist'.rotation_requests = shist.rotation_requests
       /\ (pc = "s_op_start" /\ pc' = "s_op_run") => scraper'.pos = 0
      ]_vars

WitnessC13 ==
    /\ pc = "s_op_run"
    /\ shist.cycles > 0
    /\ shist.last_rotation = "true"
    /\ scraper.client.session > 0
    /\ scraper.pos = 0

\* C15: once a phase of run is cut short by an error or by a stop request,
\* every checkpoint written afterwards still records that phase.
ClaimC15_AbortedPhaseStaysRecorded ==
    (/\ shist.aborted # "none"
     /\ shist.saved_after_abort
     /\ checkpoint_file.present)
    => checkpoint_file.state.current_phase = shist.aborted

ClaimC14_KeywordRetriedAfterRateLimit ==
    \A k \in 1..NumKeywords : hist.kw_outcome[k] # "rate_limited"

\* the ordinals of the files f are 1..n for some n
Dense(f) == \E n \in 0..Cardinality(DOMAIN f) : DOMAIN f = 1..n

\* C17: the chunk files on disk carry the ordinals 1..k without a gap, both
\* files of every ordinal that exporter_state.json counts exist, and no
\* chunk file is ever replaced by one with a different identity list; all
\* this across signals, kills and restarts.
ClaimC17_DenseOrdinalsWrittenOnce ==
    /\ [](/\ Dense(disk.csv)
          /\ Dense(disk.json)
          /\ disk.exporter_state.present
                => \A o \in 1..disk.exporter_state.chunk_count :
                       o \in DOMAIN disk.csv /\ o \in DOMAIN disk.json)
    /\ [][/\ \A o \in DOMAIN disk.csv :
                o \in DOMAIN disk.csv' /\ disk.csv'[o] = disk.csv[o]
          /\ \A o \in DOMAIN disk.json :
                o \in DOMAIN disk.json' /\ disk.json'[o] = disk.json[o]]_vars

\* C20: an entity that was marked queued (in the discovery loop or by
\* set_batch) and not yet marked processed when the process died is refused
\* by should_process_subreddit when the program has started again.
ClaimC20_QueuedStaysRefusedAfterRestart ==
    (/\ pc = "run_start"
     /\ hist.restarts > 0
     /\ hist.ended \in {"crash", "signal"})
    => \A foo \in hist.open_queue : ~should_process_subreddit(dedup, foo)

\* --------------------------------- claims on the DeduplicationManager alone

\* C18: after any sequence of operations of the manager, no name is both in
\* processed_subreddits and in queued_subreddits.
ClaimC18_ProcessedNotQueued ==
    dedup.processed_subreddits \cap dedup.queued_subreddits = {}

\* C19: after any sequence of operations of the manager, a save and a load
\* included, every name in processed_subreddits is in discovered_subreddits.
ClaimC19_ProcessedWasDiscovered ==
    dedup.processed_subreddits \subseteq dedup.discovered_subreddits

\* C21: whenever restart_for_new_ip has returned True, restart_count is 0
\* afterwards, so the next operation starts with the full budget of
\* max_restart_attempts.
ClaimC21_CounterZeroAfterSuccess ==
    shist.last_rotation = "true" => scraper.gluetun.restart_count = 0

\* the failed fetches of the current post
Outcomes == hist.gather.outcomes

\* C22: a transient failure (timeout, connection error) of a post-detail
\* fetch is retried in place, up to a bound, without refresh_callback being
\* invoked.
ClaimC22_TransientRetriedWithoutRotation ==
    \A i \in 1..Len(Outcomes) :
        Outcomes[i].error \in {"timeout", "Connection"} => ~Outcomes[i].refreshed

\* C22, as the code has it: a transient failure of a post-detail fetch is
\* retried in place, at most max_retries fetches being made for one post,
\* and before each retry refresh_callback is invoked once if the caller gave
\* one (and not at all if it gave none).
TheoremC22_TransientRetriedWithRotation ==
    /\ Len(Outcomes) <= max_retries
    /\ \A i \in 1..Len(Outcomes) :
          Outcomes[i].error \in {"timeout", "Connection"} =>
              /\ Outcomes[i].refreshed = loc.gather.callback
              /\ loc.gather.retry >= i
              /\ loc.gather.idx \notin hist.gather.abandoned
                    \/ Outcomes[Len(Outcomes)].error = "404"

WitnessC22 ==
    /\ pc = "g_post_try"
    /\ loc.gather.callback
    /\ Len(Outcomes) = 1
    /\ Outcomes[1].error = "timeout"
    /\ loc.gather.retry = 1
    /\ loc.gather.miner = 1

\* C23: a permanent failure of a post-detail fetch (an error not classed
\* recoverable) abandons the post at once: it is the last fetch made for the
\* post, no refresh_callback is invoked for it, the post gets no summary, and
\* the loop is at its head for the next post.
TheoremC23_PermanentFailureAbandonsPost ==
    \A i \in 1..Len(Outcomes) :
        Outcomes[i].error = "404" =>
            /\ i = Len(Outcomes)
            /\ ~Outcomes[i].refreshed
            /\ loc.gather.retry = i - 1
            /\ loc.gather.idx \in hist.gather.abandoned
            /\ loc.gather.idx \notin hist.gather.fetched
            /\ pc = "g_post_head"

WitnessC23 ==
    /\ pc = "g_post_head"
    /\ loc.gather.callback
    /\ Len(Outcomes) = 1
    /\ Outcomes[1].error = "404"
    /\ loc.gather.idx = 1
    /\ loc.gather.posts = 2
    /\ hist.gather.abandoned = {1}
    /\ loc.gather.miner = 0

\* C24: when a batch handed to _process_subreddit_batch has completed (the
\* call has returned and, in the keyword loop, batch_buffer.clear() and
\* state.save() have run), the checkpoint and the dedup state are saved and
\* the export buffer has been flushed: pending_users is empty.
ClaimC24_FlushedAtBatchBoundary ==
    [][ ( /\ pc = "after_batch" \/ (pc = "batch_end" /\ loc.batch_ret # "after_batch")
          /\ pc' \in {"discovery", "final_export"} )
        => /\ disk'.pipeline_state = lists'[current_batch']
           /\ disk'.subreddits.processed = dedup'.processed_subreddits
           /\ disk'.users = dedup'.seen_users
           /\ exporter'.pending_users = {} ]_vars

\* the exporter without its upload counter
LocalState(e) ==
    [pending_users |-> e.pending_users, chunk_count |-> e.chunk_count,
     total_exported |-> e.total_exported]

\* C25: the local result of export_chunks does not depend on the Delivery
\* Sink.  Whatever upload_files does (all, some or none of the files
\* transferred, or the uploader disabled), the upload step changes nothing
\* but total_uploaded, and every call that exports returns with the buffer
\* cleared, one chunk per USERS_CHUNK_SIZE identities written under the next
\* ordinals, and chunk_count and total_exported set and saved accordingly.
TheoremC25_LocalResultIndependentOfSink ==
    [][ /\ pc = "exp_upload" =>
              /\ LocalState(exporter') = LocalState(exporter)
              /\ exporter'.total_uploaded - exporter.total_uploaded
                     \in 0..(2 * loc.files_created)
              /\ ~exporter.ssh_enabled => exporter' = exporter
              /\ disk' = disk /\ dedup' = dedup /\ loc' = loc
              /\ pc' = "exp_save"
        /\ pc = "exp_save" =>
              /\ exporter'.pending_users = {}
              /\ exporter'.chunk_count =
                     hist.exp_c0 + Ceil(hist.exp_n, USERS_CHUNK_SIZE)
              /\ hist'.exp_result = Ceil(hist.exp_n, USERS_CHUNK_SIZE)
              /\ \A o \in (hist.exp_c0 + 1)..exporter'.chunk_count :
                     /\ o \in DOMAIN disk'.csv
                     /\ o \in DOMAIN disk'.json
                     /\ Range(disk'.csv[o]) = Range(disk'.json[o].users)
              /\ exporter'.total_exported = Cardinality(hist.accepted)
              /\ AllChunkUsers(disk') = hist.accepted
              /\ LocalState(disk'.exporter_state) = LocalState(exporter') ]_vars

WitnessC25 ==
    /\ pc = "idle"
    /\ exporter.ssh_enabled
    /\ exporter.pending_users = {}
    /\ exporter.chunk_count = 2
    /\ exporter.total_exported = 2
    /\ exporter.total_uploaded = 1
    /\ disk.exporter_state.total_uploaded = 1

\* C26: a disk I/O failure in a save is absorbed: no exception leaves the
\* operation that met it, and the sets and the buffer in memory are as they
\* were.
ClaimC26_IoFailureAbsorbed ==
    hist.io.failed => (hist.io.raised = "none" /\ ~hist.io.changed)

\* the records NSFWSubredditScraper exports
Records == scraper.state.discovered_subreddits

\* C27: an operation run again from scratch after a rotation, or after a
\* resume from the checkpoint, yields no entity that was already yielded:
\* discovered_subreddits never holds two records with the same name.
TheoremC27_NoEntityRecordedTwice ==
    /\ \A i, j \in 1..Len(Records) : i # j => Records[i] # Records[j]
    /\ Range(Records) \subseteq scraper.discovered

WitnessC27 ==
    /\ pc = "s_op_run"
    /\ shist.starts >= 1
    /\ shist.cycles >= 1
    /\ Len(Records) = 2
    /\ scraper.pos = 1
    /\ checkpoint_file.present

\* C28: every RateLimited or Blocked answer during a discovery phase, the
\* related-subreddit phase included, reaches the recovery wrapper and causes
\* a rotation request: the answers given so far are the rotation requests
\* made so far, plus the one being handled.
ClaimC28_EveryRateLimitReachesWrapper ==
    shist.rate_limits =
        shist.rotation_requests + (IF pc = "s_handle" THEN 1 ELSE 0)

\* C29: a failure of one entity's harvest is caught inside the batch loop of
\* _process_subreddit_batch: no exception leaves the batch call because of
\* it, so neither the batch nor the run is aborted.
ClaimC29_HarvestFailureStaysInBatchLoop == ~hist.batch_aborted

\* ---------------------------------------------------------------- C30
\* the files of chunk number j of the running export_chunks call, for every
\* chunk of users_list: both exist under the ordinal the call gave the chunk
\* and hold the chunk
CallChunksWritten(k, l, h) ==
    \A j \in 1..Ceil(h.exp_n, USERS_CHUNK_SIZE) :
        LET o == h.exp_c0 + j
            chunk == Slice(l.users_list, (j - 1) * USERS_CHUNK_SIZE,
                           USERS_CHUNK_SIZE)
        IN  /\ o \in DOMAIN k.csv
            /\ k.csv[o] = chunk
            /\ o \in DOMAIN k.json
            /\ k.json[o] = [users |-> chunk, count |-> Len(chunk)]

InExportCall == pc \in {"exp_csv", "exp_json", "exp_clear", "exp_upload", "exp_save"}

\* C30: in export_chunks, pending_users is cleared and total_exported is
\* increased only after both files of every chunk of that call have been
\* written: no state of a call has an empty buffer and a chunk of the call
\* still unwritten, and the step that empties the buffer or changes the total
\* starts in a state where every chunk file of the call is on disk, and writes
\* no file itself.
TheoremC30_ClearedOnlyAfterAllChunksWritten ==
    /\ []((InExportCall /\ exporter.pending_users = {})
             => CallChunksWritten(disk, loc, hist))
    /\ [][((exporter.pending_users # {} /\ exporter'.pending_users = {})
              \/ exporter'.total_exported # exporter.total_exported)
             => /\ pc = "exp_clear"
                /\ CallChunksWritten(disk, loc, hist)
                /\ exporter'.total_exported = exporter.total_exported + hist.exp_n
                /\ disk' = disk]_vars

\* a call with three buffered users has written its two chunks, the second
\* one short, and has then emptied the buffer and counted the three
WitnessC30 ==
    /\ pc = "exp_upload"
    /\ hist.exp_n = 3
    /\ exporter.pending_users = {}
    /\ exporter.total_exported >= 3
    /\ exporter.chunk_count = hist.exp_c0 + 2
    /\ hist.exp_c0 + 2 \in DOMAIN disk.csv
    /\ Len(disk.csv[hist.exp_c0 + 2]) = 1
    /\ hist.exp_c0 + 2 \in DOMAIN disk.json
    /\ disk.json[hist.exp_c0 + 2].count = 1

\* ---------------------------------------------------------------- C31
\* the CSV rows of the chunks numbered from+1 .. to, one after the other
RECURSIVE ConcatChunks(_, _, _)
ConcatChunks(k, from, to) ==
    IF to <= from THEN <<>>
    ELSE ConcatChunks(k, from, to - 1) \o k.csv[to]

\* C31: when an export_chunks call has written its chunks, the chunks taken in
\* ordinal order are the consecutive slices of the case-sensitively sorted
\* buffer: they are pairwise disjoint, their concatenation is the sorted
\* buffer, and the CSV rows and the JSON users list of each chunk are the same
\* list, with count equal to its length.
TheoremC31_ChunksAreSlicesOfSortedBuffer ==
    pc = "exp_clear" =>
        LET first == hist.exp_c0 + 1
            last == exporter.chunk_count
            whole == ConcatChunks(disk, hist.exp_c0, last)
        IN  /\ last = hist.exp_c0 + Ceil(hist.exp_n, USERS_CHUNK_SIZE)
            /\ \A o \in first..last :
                   /\ o \in DOMAIN disk.csv /\ o \in DOMAIN disk.json
                   /\ disk.csv[o] =
                          Slice(whole, (o - first) * USERS_CHUNK_SIZE,
                                USERS_CHUNK_SIZE)
                   /\ disk.json[o].users = disk.csv[o]
                   /\ disk.json[o].count = Len(disk.csv[o])
            /\ \A o, q \in first..last :
                   o # q => Range(disk.csv[o]) \cap Range(disk.csv[q]) = {}
            /\ Range(whole) = exporter.pending_users
            /\ Len(whole) = Cardinality(exporter.pending_users)
            /\ \A i, j \in 1..Len(whole) :
                   i < j => StrLess(whole[i], whole[j])

\* a call has written two chunks from a buffer whose case-sensitive order
\* differs from its order without case: an upper-case spelling of the second
\* name comes before a lower-case spelling of the first
WitnessC31 ==
    /\ pc = "exp_clear"
    /\ hist.exp_n = 3
    /\ exporter.chunk_count = hist.exp_c0 + 2
    /\ <<2, 1>> \in Range(disk.csv[hist.exp_c0 + 1])
    /\ <<1, 0>> \in Range(disk.csv[hist.exp_c0 + 2])

\* ---------------------------------------------------------------- C32
\* C32: outside export_chunks, total_exported equals the
\* number of identities held in the chunk files written so far, also after
\* UserExporter is rebuilt from exporter_state.json, and no identity is held
\* by two chunk files.
ClaimC32_TotalExportedCountsChunkIdentities ==
    (pc \notin {"exp_begin", "exp_csv", "exp_json", "exp_clear", "exp_upload",
                "exp_save", "handler_exit", "dead"} /\ ~loc.in_handler) =>
        /\ exporter.total_exported = Cardinality(AllChunkUsers(disk))
        /\ ChunksDisjoint

ClaimC34_NonZeroExitOnlyOnProxyFailure ==
    ExitStatus # 0 =>
        /\ pc = "s_exit1"
        /\ scraper.gluetun.current_ip = 0
        /\ scraper.state = ScraperStateFresh
        /\ scraper.discovered = {}

\* ---------------------------------------------------------------- C35
\* C35: in run a keyword is appended to completed_keywords only when its
\* search has run through all its pages: after a search that a stop request
\* cut short the keyword is not marked completed.
ClaimC35_StoppedKeywordNotCompleted ==
    [][(pc = "s_op_done" /\
        scraper'.state.completed_keywords # scraper.state.completed_keywords)
          => shist.op_end = "complete"]_vars

\* ---------------------------------------------------------------- C36
\* C36: in every saved checkpoint each name of discovered_names has a record
\* in discovered_subreddits: no entity is saved as discovered without being
\* saved for the export.
ClaimC36_EveryDiscoveredNameHasRecord ==
    checkpoint_file.present =>
        checkpoint_file.state.discovered_names
            \subseteq Range(checkpoint_file.state.discovered_subreddits)

\* ---------------------------------------------------------------- C37
\* C37: every entity the batch loop reaches that is not yet processed is
\* marked processed whatever the harvest returned: unless a signal or a kill
\* ends the process there, the harvest is followed by add_users and
\* mark_processed or by mark_processed alone; mark_processed leaves the
\* entity in the processed set in memory and on disk; and the loop never
\* harvests an entity of the processed set.
ClaimC37_ReachedEntityIsMarkedProcessed ==
    /\ [][(/\ pc = "harvest"
           /\ ~loc'.in_handler
           /\ ~(pc' = "dead" /\ hist'.ended # "exception"))
             => pc' \in {"add_filter", "mark_empty"}]_vars
    /\ [][(pc \in {"mark", "mark_empty"} /\ pc' \in {"batch_loop", "exp_begin"}
           /\ ~loc'.in_handler)
             => /\ Lower(loc.subreddit) \in dedup'.processed_subreddits
                /\ Lower(loc.subreddit) \in disk'.subreddits.processed]_vars
    /\ [][(pc # "harvest" /\ pc' = "harvest")
             => /\ ~is_subreddit_processed(dedup, loc'.subreddit)
                /\ Lower(loc'.subreddit) \notin disk.subreddits.processed]_vars

\* ---------------------------------------------------------------- C38
\* C38: harvesting one entity always terminates.  Each fetch_with_retry call
\* makes at most its max_retries attempts and one rotation fewer, and yields
\* no posts when the last of them is rate-limited too; each post takes at
\* most max_retries calls of scrape_post_details, after which the post is
\* skipped and the next one taken; the failing answers a harvest can take
\* stay below MaxFetchFailures, so that no answer is ever withheld from it;
\* and a harvest that was started returns or raises.
TheoremC38_HarvestTerminates ==
    /\ [](pc = "g_fetch" =>
             /\ loc.gather.attempt <= fetch_max_retries(loc.gather.stage) - 1
             /\ loc.gather.miner <= loc.gather.attempt
                                    + (IF loc.gather.stage = "top" THEN 0
                                       ELSE fetch_max_retries("top") - 1)
                                    + (IF loc.gather.stage = "new"
                                       THEN fetch_max_retries("hot") - 1 ELSE 0))
    /\ [][(/\ pc = "g_fetch"
           /\ hist'.gather.failures > hist.gather.failures
           /\ loc.gather.attempt = fetch_max_retries(loc.gather.stage) - 1)
             => /\ loc'.gather.posts = loc.gather.posts
                /\ loc'.gather.miner = loc.gather.miner
                /\ loc'.gather.stage # loc.gather.stage
                /\ pc' \in {"g_fetch", "g_post_head"}]_vars
    /\ [](pc = "g_post_try" =>
             /\ loc.gather.retry <= max_retries
             /\ Len(hist.gather.outcomes) = loc.gather.retry)
    /\ [](Len(hist.gather.outcomes) <= max_retries)
    /\ [](hist.gather.exhausted \cap hist.gather.fetched = {})
    /\ [][(pc = "g_post_try" /\ loc.gather.retry = max_retries)
             => /\ pc' = "g_post_head"
                /\ loc.gather.idx \in hist'.gather.exhausted
                /\ loc' = loc]_vars
    /\ [](hist.gather.failures < MaxFetchFailures)
    /\ (pc = "g_fetch") ~> (pc \in {"g_done", "g_raised"})

\* every request of a harvest failed as long as the code asked again: the
\* three listings were given up, or a post was given up after max_retries
\* calls, and the harvest returned its summary
WitnessC38 ==
    /\ pc = "g_done"
    /\ loc.gather.callback
    /\ loc.gather.posts = 2
    /\ hist.gather.exhausted = {1, 2}
    /\ hist.gather.failures >= fetch_max_retries("top") - 1 + 2 * max_retries
    /\ loc.gather.miner = hist.gather.failures

\* ---------------------------------------------------------------- C39
\* C39: in every state reached through restart_for_new_ip and
\* reset_restart_counter, 0 <= restart_count <= max_restart_attempts, and no
\* call made with restart_count at max_restart_attempts restarts the
\* container: such a call raises and leaves the controller as it was.
TheoremC39_RestartCountWithinLimit ==
    /\ [](/\ scraper.gluetun.restart_count >= 0
          /\ scraper.gluetun.restart_count <= max_restart_attempts
          /\ shist.restarted_from < max_restart_attempts)
    /\ [][(/\ pc = "c_idle"
           /\ shist'.rotation_requests > shist.rotation_requests
           /\ scraper.gluetun.restart_count = max_restart_attempts)
             => /\ shist'.last_rotation = "raise"
                /\ shist'.restarted_from = shist.restarted_from
                /\ scraper' = scraper]_vars

\* the counter stood at the limit, a call raised there without a restart, and
\* the last restart was made one below the limit
WitnessC39 ==
    /\ pc = "c_idle"
    /\ scraper.gluetun.restart_count = max_restart_attempts
    /\ shist.last_rotation = "raise"
    /\ shist.restarted_from = max_restart_attempts - 1
    /\ shist.rotation_requests > max_restart_attempts
====
